---- MODULE Spec2Model ----
(***************************************************************************)
(* A model of the nano-rs node: the peer table (src/src/node/state.rs),    *)
(* the receive pipeline (src/src/node/mod.rs, src/src/node/handler.rs),    *)
(* the wire codec (src/src/net/codec.rs, src/nano-lib-rs/src/message.rs,   *)
(* src/nano-lib-rs/src/block.rs) and the proof-of-work search              *)
(* (src/nanopow-rs/src/lib.rs).                                            *)
(*                                                                         *)
(* Three specifications share the variables:                               *)
(*   Spec       the peer table and the receive pipeline,                   *)
(*   SpecCodec  MessageCodec applied to bounded inputs,                    *)
(*   SpecPow    generate_work with its worker threads.                     *)
(***************************************************************************)
EXTENDS Integers, Sequences, FiniteSets, TLC

(***************************************************************************)
(* Bounds of the model.                                                    *)
(***************************************************************************)
\* The clock advances in steps of TimeStep seconds, up to MaxTime.
TimeStep == 300
MaxTime == 600
\* Non-forced add_or_update_peer calls that may be between their read of
\* inactive_peers and their write-locked region at the same time.
MaxPending == 1
\* Largest n of a direct random_peers(n) call.
MaxSample == 2
\* The draws of the random number generator within one random_peers call
\* repeat with this period.
DrawPeriod == 2
\* num_cpus::get(): the number of worker threads of generate_work.
NumCpus == 2
\* Largest max_iters generate_work is called with.
MaxIters == 4
\* Firings of the keepalive emitter.
MaxFirings == 2
\* Longest inner stream handed to LogErrors.
MaxStream == 4
\* The buffer of the outbound channel (2048 in run) and the items and
\* skipped errors of one producer.
ChanBuffer == 1
MaxItems == 3
MaxSkips == 1
\* The longest buffer handed to Block::deserialize_bytes: a State block
\* with signature and work, and two bytes more.
MaxBlockLen == 218

(***************************************************************************)
(* Program constants.                                                      *)
(***************************************************************************)
KEEPALIVE_INTERVAL == 60
KEEPALIVE_CUTOFF == KEEPALIVE_INTERVAL * 5
\* A prune interval of 20 keepalive intervals.
PEER_PRUNE_INTERVAL_slow == KEEPALIVE_INTERVAL * 20
PEER_PRUNE_INTERVAL == KEEPALIVE_INTERVAL * 2
\* The number of peers the node puts in a KeepAlive (random_peers(8)).
KEEPALIVE_SAMPLE == 8
MAGIC_NUMBER == 82
SIGNATURE_LENGTH == 64

(***************************************************************************)
(* Bytes and fixed-width values.  A u64 is modelled by its 8 bytes and a   *)
(* u128 by its 16 bytes, most significant byte first, so that the byte     *)
(* order of a conversion is observable and no arithmetic overflows.        *)
(***************************************************************************)
Byte == 0..255

RECURSIVE Reverse(_)
Reverse(s) == IF s = <<>> THEN <<>> ELSE Append(Reverse(Tail(s)), Head(s))

Fill(n, b) == [i \in 1..n |-> b]

Min(a, b) == IF a < b THEN a ELSE b

\* put_u64::<BigEndian> / put_u64::<LittleEndian> of a u64 value.
PutU64BE(v) == v
PutU64LE(v) == Reverse(v)
\* get_u64::<BigEndian> / get_u64::<LittleEndian> of 8 bytes.
GetU64BE(bs) == bs
GetU64LE(bs) == Reverse(bs)
\* put_u128::<BigEndian> and get_u128::<BigEndian>.
PutU128BE(v) == v
GetU128BE(bs) == bs
\* put_u16::<LittleEndian> and get_u16::<LittleEndian> of a port number.
PutU16LE(p) == <<p % 256, p \div 256>>
GetU16LE(bs) == bs[1] + 256 * bs[2]

(***************************************************************************)
(* Socket addresses.  A SocketAddrV6 is its 16 octets, port, flowinfo and  *)
(* scope_id; a SocketAddr is either that or a V4 address of 4 octets.      *)
(***************************************************************************)
SocketAddrV6(ip, port, flowinfo, scope_id) ==
    [ip |-> ip, port |-> port, flowinfo |-> flowinfo, scope_id |-> scope_id]

V6(a) == [v |-> 6, a |-> a]
V4(octets, port) == [v |-> 4, ip |-> octets, port |-> port]

\* Ipv4Addr::to_ipv6_mapped
ToIpv6Mapped(o) == Fill(10, 0) \o <<255, 255>> \o o

to_ipv6(addr) ==
    IF addr.v = 4 THEN SocketAddrV6(ToIpv6Mapped(addr.ip), addr.port, 0, 0)
    ELSE addr.a

\* default_addr!() and "[::]:0".parse()
DefaultAddr == SocketAddrV6(Fill(16, 0), 0, 0, 0)

IsUnspecified(ip) == \A i \in 1..16 : ip[i] = 0
IsLoopback(ip) == (\A i \in 1..15 : ip[i] = 0) /\ ip[16] = 1
IsMulticast(ip) == ip[1] = 255

\* Ipv6Addr::to_ipv4: the last four octets of ::a.b.c.d and ::ffff:a.b.c.d,
\* <<>> for every other address.
ToIpv4(ip) ==
    IF (\A i \in 1..10 : ip[i] = 0)
       /\ (<<ip[11], ip[12]>> = <<0, 0>> \/ <<ip[11], ip[12]>> = <<255, 255>>)
    THEN SubSeq(ip, 13, 16)
    ELSE <<>>

\* The table without its 203.0.113.0/24 row.
IPV4_RESERVED_ADDRESSES_short ==
    << << <<0, 0, 0, 0>>,     <<0, 255, 255, 255>> >>,
       << <<127, 0, 0, 0>>,   <<127, 255, 255, 255>> >>,
       << <<192, 0, 2, 0>>,   <<192, 0, 2, 255>> >>,
       << <<198, 51, 100, 0>>, <<198, 51, 100, 255>> >>,
       << <<224, 0, 0, 0>>,   <<239, 255, 255, 255>> >>,
       << <<240, 0, 0, 0>>,   <<255, 255, 255, 255>> >> >>

\* The (start, end) pairs of IPV4_RESERVED_ADDRESSES, each u32 as 4 octets.
IPV4_RESERVED_ADDRESSES ==
    << << <<0, 0, 0, 0>>,     <<0, 255, 255, 255>> >>,
       << <<127, 0, 0, 0>>,   <<127, 255, 255, 255>> >>,
       << <<192, 0, 2, 0>>,   <<192, 0, 2, 255>> >>,
       << <<198, 51, 100, 0>>, <<198, 51, 100, 255>> >>,
       << <<203, 0, 113, 0>>, <<203, 0, 113, 255>> >>,
       << <<224, 0, 0, 0>>,   <<239, 255, 255, 255>> >>,
       << <<240, 0, 0, 0>>,   <<255, 255, 255, 255>> >> >>

\* a <= b for two u32 values given as 4 octets, most significant first.
RECURSIVE U32Le(_, _)
U32Le(a, b) ==
    IF a = <<>> THEN TRUE
    ELSE IF Head(a) # Head(b) THEN Head(a) < Head(b)
    ELSE U32Le(Tail(a), Tail(b))

check_addr(addr) ==
    IF \A i \in 1..16 : addr.ip[i] = 0 THEN FALSE
    ELSE IF addr.port = 0 THEN FALSE
    ELSE IF IsUnspecified(addr.ip) \/ IsLoopback(addr.ip) \/ IsMulticast(addr.ip)
         THEN FALSE
    ELSE LET v4 == ToIpv4(addr.ip)
         IN  IF v4 = <<>> THEN TRUE
             ELSE ~ \E k \in 1..Len(IPV4_RESERVED_ADDRESSES) :
                      /\ U32Le(IPV4_RESERVED_ADDRESSES[k][1], v4)
                      /\ U32Le(v4, IPV4_RESERVED_ADDRESSES[k][2])

(***************************************************************************)
(* The addresses of the model.                                             *)
(***************************************************************************)
\* 2001:db8::1
IpGlobal6 == <<32, 1, 13, 184>> \o Fill(11, 0) \o <<1>>
AddrGlobal6 == SocketAddrV6(IpGlobal6, 7075, 0, 0)
\* ::ffff:8.8.8.8
AddrPublic4 == SocketAddrV6(ToIpv6Mapped(<<8, 8, 8, 8>>), 7075, 0, 0)
\* ::ffff:127.0.0.1, rejected by check_addr
AddrLoop4 == SocketAddrV6(ToIpv6Mapped(<<127, 0, 0, 1>>), 7075, 0, 0)
\* 2001:db8::1 with port 0, rejected by check_addr
AddrPortZero == SocketAddrV6(IpGlobal6, 0, 0, 0)

\* The addresses the peer table is called with.
Addrs == {AddrGlobal6, AddrPublic4, AddrLoop4}

\* The senders of inbound datagrams, as the socket reports them.
Senders == {V6(AddrGlobal6), V4(<<8, 8, 8, 8>>, 7075), V4(<<127, 0, 0, 1>>, 7075)}

(***************************************************************************)
(* IndexMap<SocketAddrV6, PeerInfo>: a sequence of entries with distinct   *)
(* keys, in insertion order.                                               *)
(***************************************************************************)
PeerInfo(t) == [last_seen |-> t]
Entry(a, info) == [addr |-> a, info |-> info]

Keys(m) == {m[i].addr : i \in 1..Len(m)}

\* IndexMap::get_index_of, 0 when the key is absent.
IndexOf(m, a) ==
    IF a \in Keys(m) THEN CHOOSE i \in 1..Len(m) : m[i].addr = a ELSE 0

\* IndexMap::get
MapGet(m, a) == m[IndexOf(m, a)].info

\* IndexMap::insert: replaces the value in place, or appends.
MapInsert(m, a, info) ==
    IF a \in Keys(m) THEN [m EXCEPT ![IndexOf(m, a)].info = info]
    ELSE Append(m, Entry(a, info))

\* IndexMap::remove and OccupiedEntry::remove are swap_remove: the last
\* entry takes the place of the removed one.
SwapRemove(m, a) ==
    IF a \notin Keys(m) THEN m
    ELSE LET i == IndexOf(m, a)
             n == Len(m)
         IN  IF i = n THEN SubSeq(m, 1, n - 1)
             ELSE [SubSeq(m, 1, n - 1) EXCEPT ![i] = m[n]]

(***************************************************************************)
(* Option values: None is the empty sequence, Some(x) the sequence <<x>>.  *)
(***************************************************************************)
None == <<>>
Some(x) == <<x>>
IsSome(o) == o # <<>>
Unwrap(o) == o[1]
UnwrapOr(o, d) == IF o = <<>> THEN d ELSE o[1]

(***************************************************************************)
(* enum_byte! enumerations (src/nano-lib-rs/src/macros.rs): the variants   *)
(* are strings, and each table gives the byte of every variant.            *)
(***************************************************************************)
MessageKindValue ==
    [Invalid |-> 0, NotAMessage |-> 1, KeepAlive |-> 2, Publish |-> 3,
     ConfirmReq |-> 4, ConfirmAck |-> 5, BulkPull |-> 6, BulkPush |-> 7,
     FrontierReq |-> 8]

NetworkKindValue == [Test |-> 65, Beta |-> 66, Main |-> 67]

VersionValue ==
    [One |-> 1, Two |-> 2, Three |-> 3, Four |-> 4, Five |-> 5, Six |-> 6]

BlockKindValue ==
    [Invalid |-> 0, NotABlock |-> 1, Send |-> 2, Receive |-> 3, Open |-> 4,
     Change |-> 5, State |-> 6]

\* $name::from_value
FromValue(table, value) ==
    IF \E k \in DOMAIN table : table[k] = value
    THEN Some(CHOOSE k \in DOMAIN table : table[k] = value)
    ELSE None

\* Serialize for an enum_byte! enumeration: serialize_u8(*self as u8)
EnumByte(table, variant) == table[variant]

\* BlockKind::payload_size
PayloadSize(kind) ==
    CASE kind = "Send" -> 80
      [] kind = "Receive" -> 64
      [] kind = "Open" -> 96
      [] kind = "Change" -> 32
      [] kind = "State" -> 144
      [] OTHER -> 0

(***************************************************************************)
(* Blocks (src/nano-lib-rs/src/block.rs).                                  *)
(***************************************************************************)
\* Block::new
NewBlock(payload, signature, work) ==
    [payload |-> payload, work |-> work, signature |-> signature,
     hash |-> None, next |-> None]

\* BlockPayload::serialize_bytes
SerializePayload(p) ==
    CASE p.kind = "Send" ->
           p.previous \o p.destination \o PutU128BE(p.balance)
      [] p.kind = "Receive" -> p.previous \o p.source
      [] p.kind = "Open" -> p.source \o p.representative \o p.account
      [] p.kind = "Change" -> p.previous \o p.representative
      [] p.kind = "State" ->
           p.account \o p.previous \o p.representative
           \o PutU128BE(p.balance) \o p.link

\* Block::serialize_bytes
SerializeBlock(b) ==
    SerializePayload(b.payload)
    \o (IF IsSome(b.signature) THEN Unwrap(b.signature) ELSE <<>>)
    \o (IF IsSome(b.work)
        THEN IF b.payload.kind = "State" THEN PutU64BE(Unwrap(b.work))
             ELSE PutU64LE(Unwrap(b.work))
        ELSE <<>>)

\* The sizes of the fields BlockPayload::deserialize_bytes reads, in order.
PayloadFields(kind) ==
    CASE kind = "Send" -> <<32, 32, 16>>
      [] kind = "Receive" -> <<32, 32>>
      [] kind = "Open" -> <<32, 32, 32>>
      [] kind = "Change" -> <<32, 32>>
      [] kind = "State" -> <<32, 32, 32, 16, 32>>
      [] OTHER -> <<>>

RECURSIVE ReadFields(_, _)
\* copy_to_slice / get_u128 / get_u64 on a Buf, field after field: each
\* read panics when fewer bytes remain than it needs.
ReadFields(bytes, sizes) ==
    IF sizes = <<>> THEN [panic |-> FALSE, fields |-> <<>>, rest |-> bytes]
    ELSE IF Len(bytes) < Head(sizes)
    THEN [panic |-> TRUE, fields |-> <<>>, rest |-> bytes]
    ELSE LET r == ReadFields(SubSeq(bytes, Head(sizes) + 1, Len(bytes)),
                             Tail(sizes))
         IN  [panic |-> r.panic,
              fields |-> <<SubSeq(bytes, 1, Head(sizes))>> \o r.fields,
              rest |-> r.rest]

\* BlockHash::from_bytes, PublicKey::from_bytes, Signature::from_bytes:
\* None (an error) unless the slice has the length of the type.
FromBytes(bytes, n) == IF Len(bytes) # n THEN None ELSE Some(bytes)

BlockErr(e) == [tag |-> "Err", err |-> e]
BlockPanic == [tag |-> "Panic"]

\* BlockPayload::deserialize_bytes: the payload and the bytes left in buf.
DeserializePayload(bytes, kind) ==
    IF kind \notin {"Send", "Receive", "Open", "Change", "State"}
    THEN BlockErr("InvalidBlockPayloadKindError")
    ELSE IF Len(bytes) < PayloadSize(kind)
    THEN BlockErr("BlockPayloadLengthError")
    ELSE LET r == ReadFields(bytes, PayloadFields(kind))
             f == r.fields
         IN  IF r.panic THEN BlockPanic
             ELSE IF \E i \in 1..Len(f) :
                        Len(f[i]) = 32 /\ ~IsSome(FromBytes(f[i], 32))
             THEN BlockErr("from_bytes")
             ELSE [tag |-> "Ok",
                   rest |-> r.rest,
                   payload |->
                     CASE kind = "Send" ->
                            [kind |-> kind, previous |-> f[1],
                             destination |-> f[2],
                             balance |-> GetU128BE(f[3])]
                       [] kind = "Receive" ->
                            [kind |-> kind, previous |-> f[1],
                             source |-> f[2]]
                       [] kind = "Open" ->
                            [kind |-> kind, source |-> f[1],
                             representative |-> f[2], account |-> f[3]]
                       [] kind = "Change" ->
                            [kind |-> kind, previous |-> f[1],
                             representative |-> f[2]]
                       [] kind = "State" ->
                            [kind |-> kind, account |-> f[1],
                             previous |-> f[2], representative |-> f[3],
                             balance |-> GetU128BE(f[4]), link |-> f[5]]]

\* Lines 203-213: the payload, then the signature, then the work.
DeserializeBlockBody(bytes, kind) ==
    LET p == DeserializePayload(bytes, kind)
    IN  IF p.tag # "Ok" THEN p
        ELSE LET r == ReadFields(p.rest, <<SIGNATURE_LENGTH, 8>>)
             IN  IF r.panic THEN BlockPanic
                 ELSE IF ~IsSome(FromBytes(r.fields[1], SIGNATURE_LENGTH))
                 THEN BlockErr("from_bytes")
                 ELSE [tag |-> "Ok",
                       block |-> NewBlock(
                           p.payload, Some(r.fields[1]),
                           Some(IF kind = "State" THEN GetU64BE(r.fields[2])
                                ELSE GetU64LE(r.fields[2])))]

\* Block::deserialize_bytes
DeserializeBlock(bytes, kind) ==
    IF kind \in {"Invalid", "NotABlock"} THEN BlockErr("Invalid block kind")
    ELSE IF Len(bytes) < PayloadSize(kind) + SIGNATURE_LENGTH
    THEN BlockErr("NoSignature")
    ELSE IF Len(bytes) < PayloadSize(kind) + SIGNATURE_LENGTH + 8
    THEN BlockErr("NoWork")
    ELSE DeserializeBlockBody(bytes, kind)

\* BlockPayload::root
Root(p) == IF p.kind = "Open" THEN p.account ELSE p.previous

\* impl Hash for BlockPayload: the bytes written to the hasher.
PayloadHashInput(p) ==
    CASE p.kind = "Send" ->
           p.previous \o p.destination \o PutU128BE(p.balance)
      [] p.kind = "Receive" -> p.previous \o p.source
      [] p.kind = "Open" -> p.source \o p.representative \o p.account
      [] p.kind = "Change" -> p.previous \o p.representative
      [] p.kind = "State" ->
           [i \in 1..31 |-> 0] \o <<6>> \o p.account \o p.previous
           \o p.representative \o PutU128BE(p.balance) \o p.link

RECURSIVE PositionSum(_, _, _)
\* The sum of position times byte over bs[lo..hi], by halves.
PositionSum(bs, lo, hi) ==
    IF lo > hi THEN 0
    ELSE IF lo = hi THEN (lo * bs[lo]) % 251
    ELSE LET mid == (lo + hi) \div 2
         IN  (PositionSum(bs, lo, mid) + PositionSum(bs, mid + 1, hi)) % 251

\* BlockHasher::finish: the 32-byte BLAKE2b digest of the bytes written.
\* BLAKE2b is replaced by a function of the same shape, a digest that
\* depends on every byte written and on its position.
BlockDigest(bytes) ==
    [i \in 1..32 |->
        (PositionSum(bytes, 1, Len(bytes)) + i * Len(bytes)) % 256]

\* Block::calculate_hash: the block afterwards and the value returned.
CalculateHash(b) ==
    LET h == BlockDigest(PayloadHashInput(b.payload))
    IN  [block |-> [b EXCEPT !.hash = Some(h)], ok |-> TRUE, value |-> Some(h),
         computed |-> TRUE]

\* Block::hash with the early return of lines 164-169 taken out: it
\* recomputes on every call.
BlockHashOpAlwaysComputes(b, force) == CalculateHash(b)

\* Block::hash
BlockHashOp(b, force) ==
    IF ~force /\ IsSome(b.hash)
    THEN [block |-> b, ok |-> TRUE, value |-> b.hash, computed |-> FALSE]
    ELSE CalculateHash(b)

(***************************************************************************)
(* Messages (src/nano-lib-rs/src/message.rs).                              *)
(***************************************************************************)
InvalidInner == [tag |-> "Invalid"]
KeepAliveInner(addrs) == [tag |-> "KeepAlive", peers |-> addrs]
PublishInner(b) == [tag |-> "Publish", block |-> b]
ConfirmReqInner(b) == [tag |-> "ConfirmReq", block |-> b]
ConfirmAckInner(k, sig, sequence, b) ==
    [tag |-> "ConfirmAck", public_key |-> k, signature |-> sig,
     sequence |-> sequence, block |-> b]

\* One peer of a KeepAlive body: 16 octets and the port, little-endian.
SerializePeer(peer) == peer.ip \o PutU16LE(peer.port)

RECURSIVE Flatten(_)
Flatten(ss) == IF ss = <<>> THEN <<>> ELSE Head(ss) \o Flatten(Tail(ss))

\* serialize_bytes that writes the peers it is given, without the fillers
\* and without the cut at 8.
SerializeInnerAsGiven(inner) ==
    CASE inner.tag = "Invalid" -> <<>>
      [] inner.tag = "KeepAlive" ->
           Flatten([i \in 1..Len(inner.peers) |->
                       SerializePeer(inner.peers[i])])
      [] inner.tag = "Publish" -> SerializeBlock(inner.block)
      [] inner.tag = "ConfirmReq" -> SerializeBlock(inner.block)
      [] inner.tag = "ConfirmAck" ->
           inner.public_key \o inner.signature \o PutU64LE(inner.sequence)
           \o SerializeBlock(inner.block)

\* MessageInner::serialize_bytes
SerializeInner(inner) ==
    CASE inner.tag = "Invalid" -> <<>>
      [] inner.tag = "KeepAlive" ->
           LET padded == inner.peers
                         \o Fill(8 - Min(Len(inner.peers), 8), DefaultAddr)
           IN  Flatten([i \in 1..8 |-> SerializePeer(padded[i])])
      [] inner.tag = "Publish" -> SerializeBlock(inner.block)
      [] inner.tag = "ConfirmReq" -> SerializeBlock(inner.block)
      [] inner.tag = "ConfirmAck" ->
           inner.public_key \o inner.signature \o PutU64LE(inner.sequence)
           \o SerializeBlock(inner.block)

\* One 18-byte chunk of a KeepAlive body.
DeserializePeer(chunk) ==
    SocketAddrV6(SubSeq(chunk, 1, 16), GetU16LE(SubSeq(chunk, 17, 18)), 0, 0)

\* The peers of the complete 18-byte chunks of bytes.chunks(18).
ChunkPeers(bytes) ==
    [i \in 1..(Len(bytes) \div 18) |->
        DeserializePeer(SubSeq(bytes, 18 * (i - 1) + 1, 18 * i))]

\* deserialize_bytes that returns the KeepAlive list even when it is
\* empty.
DeserializeInnerKeepsEmpty(kind, bytes) ==
    IF kind = "KeepAlive" THEN KeepAliveInner(ChunkPeers(bytes))
    ELSE InvalidInner

\* MessageInner::deserialize_bytes; it has no failing path.
DeserializeInner(kind, bytes) ==
    IF kind = "KeepAlive"
    THEN LET addrs == ChunkPeers(bytes)
         IN  IF Len(addrs) > 0 THEN KeepAliveInner(addrs) ELSE InvalidInner
    ELSE InvalidInner

\* bincode::serialize(&self.header): one byte per field.
SerializeHeader(h) ==
    << h.magic_number,
       EnumByte(NetworkKindValue, h.network),
       EnumByte(VersionValue, h.version_max),
       EnumByte(VersionValue, h.version_using),
       EnumByte(VersionValue, h.version_min),
       EnumByte(MessageKindValue, h.kind),
       EnumByte(BlockKindValue, h.block_kind),
       h.extensions >>

\* bincode::deserialize(&header_bytes): None when the visitor of a field
\* rejects its byte.  The magic number and the extension bits are plain u8.
DeserializeHeader(bs) ==
    LET network == FromValue(NetworkKindValue, bs[2])
        vmax == FromValue(VersionValue, bs[3])
        vusing == FromValue(VersionValue, bs[4])
        vmin == FromValue(VersionValue, bs[5])
        kind == FromValue(MessageKindValue, bs[6])
        bkind == FromValue(BlockKindValue, bs[7])
    IN  IF \A o \in {network, vmax, vusing, vmin, kind, bkind} : IsSome(o)
        THEN Some([magic_number |-> bs[1], network |-> Unwrap(network),
                   version_max |-> Unwrap(vmax),
                   version_using |-> Unwrap(vusing),
                   version_min |-> Unwrap(vmin), kind |-> Unwrap(kind),
                   block_kind |-> Unwrap(bkind), extensions |-> bs[8]])
        ELSE None

NewMessage(header, inner) == [header |-> header, inner |-> inner]

\* Message::serialize_bytes
SerializeMessage(m) == SerializeHeader(m.header) \o SerializeInner(m.inner)

\* Message::deserialize_bytes: None stands for Err.
DeserializeMessage(bytes) ==
    IF Len(bytes) < 8 THEN None
    ELSE LET header == DeserializeHeader(SubSeq(bytes, 1, 8))
         IN  IF ~IsSome(header) THEN None
             ELSE Some(NewMessage(
                    Unwrap(header),
                    DeserializeInner(Unwrap(header).kind,
                                     SubSeq(bytes, 9, Len(bytes)))))

\* MessageBuilder::new and the with_* setters used by the node and tests.
MessageBuilder(kind) ==
    [network |-> None, version_max |-> None, version_using |-> None,
     version_min |-> None, kind |-> kind, block_kind |-> None,
     extensions |-> None, inner |-> None]
WithNetwork(b, network) == [b EXCEPT !.network = Some(network)]
WithBlockKind(b, block_kind) == [b EXCEPT !.block_kind = Some(block_kind)]
WithExtensions(b, e) == [b EXCEPT !.extensions = Some(e)]
WithData(b, data) == [b EXCEPT !.inner = Some(data)]

\* MessageBuilder::build
Build(b) ==
    NewMessage(
      [magic_number |-> MAGIC_NUMBER,
       network |-> UnwrapOr(b.network, "Main"),
       version_max |-> UnwrapOr(b.version_max, "Five"),
       version_using |-> UnwrapOr(b.version_using, "Five"),
       version_min |-> UnwrapOr(b.version_min, "One"),
       kind |-> b.kind,
       block_kind |-> UnwrapOr(b.block_kind, "Invalid"),
       extensions |-> UnwrapOr(b.extensions, 0)],
      UnwrapOr(b.inner, InvalidInner))

(***************************************************************************)
(* MessageCodec (src/src/net/codec.rs).                                    *)
(***************************************************************************)
\* The message decode substitutes when Message::deserialize_bytes fails.
DecodeFallback == Build(MessageBuilder("Invalid"))

\* decode with the error of Message::deserialize_bytes propagated by `?`.
CodecDecodePropagates(buf) ==
    LET r == DeserializeMessage(buf)
    IN  [ok |-> IsSome(r), item |-> IF IsSome(r) THEN Some(Unwrap(r)) ELSE None]

\* MessageCodec::decode: the Result<Option<Message>> it returns.
CodecDecode(buf) ==
    LET r == DeserializeMessage(buf)
    IN  [ok |-> TRUE,
         item |-> Some(IF IsSome(r) THEN Unwrap(r) ELSE DecodeFallback)]

\* MessageCodec::encode: the bytes put on dst.  Message::serialize_bytes
\* fails only when bincode fails, which it does not on a MessageHeader.
CodecEncode(msg) == [ok |-> TRUE, bytes |-> SerializeMessage(msg)]


(***************************************************************************)
(* State: the peer table (src/src/node/state.rs).                          *)
(***************************************************************************)
\* Lines 46-47: the non-forced call's look-up in inactive_peers.
\* The lookup of line 47 made in the wrong map: it never finds the peer.
InactiveGetMiss(inactive_map, peer) == FALSE

InactiveGet(inactive_map, peer) == peer \in Keys(inactive_map)

\* Reclaim with the entry.remove() of line 55 left out.
ReclaimKeepsInactive(map, inactive_map, peer) ==
    IF peer \in Keys(inactive_map)
    THEN [peers |-> MapInsert(map, peer, MapGet(inactive_map, peer)),
          inactive |-> inactive_map]
    ELSE [peers |-> map, inactive |-> inactive_map]

\* Lines 53-56: an entry of inactive_peers is copied into peers and removed
\* from inactive_peers.
Reclaim(map, inactive_map, peer) ==
    IF peer \in Keys(inactive_map)
    THEN [peers |-> MapInsert(map, peer, MapGet(inactive_map, peer)),
          inactive |-> SwapRemove(inactive_map, peer)]
    ELSE [peers |-> map, inactive |-> inactive_map]

\* Upsert that also sets last_seen of every other entry.
UpsertRefreshesAll(map, peer, t) ==
    IF peer \in Keys(map)
    THEN [peers |-> [i \in 1..Len(map) |-> Entry(map[i].addr, PeerInfo(t))],
          val |-> FALSE]
    ELSE IF check_addr(peer)
         THEN [peers |-> Append(map, Entry(peer, PeerInfo(t))), val |-> TRUE]
         ELSE [peers |-> map, val |-> FALSE]

\* Upsert that leaves last_seen of an occupied entry as it was.
UpsertKeepsLastSeen(map, peer, t) ==
    IF peer \in Keys(map)
    THEN [peers |-> map, val |-> FALSE]
    ELSE IF check_addr(peer)
         THEN [peers |-> Append(map, Entry(peer, PeerInfo(t))), val |-> TRUE]
         ELSE [peers |-> map, val |-> FALSE]

\* Upsert with the check_addr test of line 63 left out.
UpsertUnchecked(map, peer, t) ==
    IF peer \in Keys(map)
    THEN [peers |-> [map EXCEPT ![IndexOf(map, peer)].info.last_seen = t],
          val |-> FALSE]
    ELSE [peers |-> Append(map, Entry(peer, PeerInfo(t))), val |-> TRUE]

\* Lines 57-70: the entry of peer in peers is refreshed, or inserted when
\* check_addr accepts the address.
Upsert(map, peer, t) ==
    IF peer \in Keys(map)
    THEN [peers |-> [map EXCEPT ![IndexOf(map, peer)].info.last_seen = t],
          val |-> FALSE]
    ELSE IF check_addr(peer)
         THEN [peers |-> Append(map, Entry(peer, PeerInfo(t))), val |-> TRUE]
         ELSE [peers |-> map, val |-> FALSE]

\* add_or_update_peer without lines 53-56: no reclaim from inactive_peers.
AddLockedNoReclaim(map, inactive_map, peer, t) ==
    LET u == Upsert(map, peer, t)
    IN  [peers |-> u.peers, inactive |-> inactive_map, val |-> u.val]

\* Lines 51-70: add_or_update_peer from the point where it holds both write
\* locks.
AddLocked(map, inactive_map, peer, t) ==
    LET r == Reclaim(map, inactive_map, peer)
        u == Upsert(r.peers, peer, t)
    IN  [peers |-> u.peers, inactive |-> r.inactive, val |-> u.val]

\* The age test with >= in place of >.
ExpiredAtCutoff(info, t) == t - info.last_seen >= KEEPALIVE_CUTOFF

\* Line 78: the age test of prune_peers.
Expired(info, t) == t - info.last_seen > KEEPALIVE_CUTOFF

\* Lines 76-82: the addresses pushed on to_prune, in the order of the map.
RECURSIVE ToPrune(_, _)
ToPrune(map, t) ==
    IF map = <<>> THEN <<>>
    ELSE (IF Expired(Head(map).info, t) THEN <<Head(map).addr>> ELSE <<>>)
         \o ToPrune(Tail(map), t)

\* Line 80: inactive_map.insert(*addr, *info) for every pruned entry.
RECURSIVE InsertPruned(_, _, _)
InsertPruned(inactive_map, map, t) ==
    IF map = <<>> THEN inactive_map
    ELSE InsertPruned(
           IF Expired(Head(map).info, t)
           THEN MapInsert(inactive_map, Head(map).addr, Head(map).info)
           ELSE inactive_map,
           Tail(map), t)

\* Lines 83-85: map.remove(addr) for every address of to_prune.
RECURSIVE RemoveAll(_, _)
RemoveAll(map, to_prune) ==
    IF to_prune = <<>> THEN map
    ELSE RemoveAll(SwapRemove(map, Head(to_prune)), Tail(to_prune))

\* Lines 73-87: prune_peers.
PrunePeersOp(map, inactive_map, t) ==
    LET to_prune == ToPrune(map, t)
    IN  [peers |-> RemoveAll(map, to_prune),
         inactive |-> InsertPruned(inactive_map, map, t),
         val |-> Len(to_prune)]

\* Lines 89-94: remove_peer.
RemovePeerOp(map, peer) == SwapRemove(map, peer)

\* Line 100: the values rng.gen_range(0, peers.len()) can return in the n
\* draws of one call.  gen_range(0, 0) panics: there is no draw then.
Draws(n, len) ==
    {[i \in 1..n |-> p[((i - 1) % DrawPeriod) + 1]] :
        p \in [1..DrawPeriod -> 0..(len - 1)]}

\* Line 101: peers.get_index(idx).unwrap().0
GetIndex(map, idx) == map[idx + 1].addr

\* Lines 96-103: random_peers for the given draws.
RandomPeersOp(map, draws) == [i \in 1..Len(draws) |-> GetIndex(map, draws[i])]

\* Whether random_peers(n) panics on the map (gen_range with an empty range).
RandomPeersPanics(map, n) == n > 0 /\ Len(map) = 0

\* Lines 40-42: peer_count.
PeerCount(map) == Len(map)

(***************************************************************************)
(* The receive pipeline (src/src/node/mod.rs, src/src/node/handler.rs).    *)
(***************************************************************************)
\* handler.rs lines 20-27: one (message, address) pair for every listed
\* peer that check_addr accepts.
RECURSIVE ToSend(_, _)
ToSend(peer_addrs, msg) ==
    IF peer_addrs = <<>> THEN <<>>
    ELSE (IF check_addr(Head(peer_addrs))
          THEN << [msg |-> msg, dest |-> V6(Head(peer_addrs))] >>
          ELSE <<>>)
         \o ToSend(Tail(peer_addrs), msg)

\* handler.rs lines 17-19 and mod.rs lines 70-72: the KeepAlive the node
\* sends.
KeepAliveOf(send_peers) ==
    Build(WithData(MessageBuilder("KeepAlive"), KeepAliveInner(send_peers)))

\* handler::keepalive, given the peers random_peers(8) returned.
HandlerKeepalive(msg, send_peers) ==
    IF msg.inner.tag = "KeepAlive"
    THEN ToSend(msg.inner.peers, KeepAliveOf(send_peers))
    ELSE <<>>

\* Whether handler::keepalive calls random_peers (handler.rs line 15).
HandlerSamples(msg) == msg.header.kind = "KeepAlive" /\ msg.inner.tag = "KeepAlive"

\* process_messages without the network test.
NetworkMatchesAny(configured, msg) == TRUE

\* mod.rs line 39: the test that lets a message through.
NetworkMatches(configured, msg) == configured = msg.header.network

(***************************************************************************)
(* Proof of work (src/nanopow-rs/src/lib.rs).                              *)
(***************************************************************************)
\* THRESHOLD: the bytes of "ffffffc000000000".
THRESHOLD == <<255, 255, 255, 192, 0, 0, 0, 0>>

\* The comparison without rev(): the digest bytes, first first.
check_result_threshold_forward(hash) ==
    \A i \in 0..7 : hash[i + 1] >= THRESHOLD[i + 1]

\* check_result_threshold: the digest bytes, last first, against THRESHOLD.
check_result_threshold(hash) ==
    \A i \in 0..7 : hash[8 - i] >= THRESHOLD[i + 1]

RECURSIVE WeightedSum(_, _)
WeightedSum(bs, k) ==
    IF bs = <<>> THEN 0 ELSE k * Head(bs) + WeightedSum(Tail(bs), k + 1)

\* hash_work_internal: the 8-byte BLAKE2b digest of work followed by hash.
\* BLAKE2b is replaced by a function of the same shape: its digest depends
\* on every byte of the work, on its byte order and on the hash, and takes
\* values at, just below and above the threshold.
hash_work_internal(work, hash) ==
    LET s == (WeightedSum(work, 1) + hash[1]) % 4
    IN  CASE s = 0 -> <<0, 0, 0, 0, 192, 255, 255, 255>>
          [] s = 1 -> <<255, 255, 255, 255, 191, 255, 255, 255>>
          [] s = 2 -> <<1, 2, 3, 4, 200, 255, 254, 255>>
          [] s = 3 -> <<9, 9, 9, 9, 255, 255, 255, 255>>

\* check_work: Work holds a u64, written little-endian before hashing.
check_work(hash, work) ==
    LET work_bytes == PutU64LE(work)
        value == hash_work_internal(work_bytes, hash)
    IN  check_result_threshold(value)

\* generate_work reading the nonce with BigEndian::read_u64.
WorkOfBytesBigEndian(r) == IF IsSome(r) THEN Some(GetU64BE(Unwrap(r))) ELSE None

\* generate_work, lines 166-171: the Work made of the bytes that
\* generate_work_internal returned.
WorkOfBytes(r) == IF IsSome(r) THEN Some(GetU64LE(Unwrap(r))) ELSE None

\* The budget with a default of numcpus - 1.
EffectiveMaxItersSmall(m, numcpus) == UnwrapOr(m, numcpus - 1)

\* Line 179: max_iters.unwrap_or(numcpus as u64 * 2)
EffectiveMaxIters(m, numcpus) == UnwrapOr(m, numcpus * 2)

\* The loop condition with <= in place of <.
WorkerContinuesInclusive(result_valid, done, iters, limit, numcpus) ==
    ~result_valid /\ ~done /\ iters <= limit \div numcpus

\* Line 188: the loop condition of a worker.
WorkerContinues(result_valid, done, iters, limit, numcpus) ==
    ~result_valid /\ ~done /\ iters < limit \div numcpus

\* Channels of one slot less.
ChannelCapacitySmall(numcpus) == numcpus - 1

\* Lines 176-177: crossbeam_channel::bounded(numcpus), for both channels.
ChannelCapacity(numcpus) == numcpus

\* The loop condition of the coordinator with one more receive allowed.
CoordinatorContinuesOneMore(res, received, numcpus) ==
    ~IsSome(res) /\ received < numcpus

\* Lines 209: the loop condition of the coordinator.
CoordinatorContinues(res, received, numcpus) ==
    ~IsSome(res) /\ received < numcpus - 1

(***************************************************************************)
(* Block::set_work and Block::generate_work (nano-lib-rs/src/block.rs).    *)
(***************************************************************************)
\* Block::set_work: the block afterwards and the Result.
SetWork(b, work) ==
    LET valid == check_work(Root(b.payload), work)
    IN  IF valid
        THEN [block |-> b, ok |-> FALSE, err |-> "InvalidWorkError"]
        ELSE [block |-> [b EXCEPT !.work = Some(work)], ok |-> TRUE,
              err |-> "none"]

\* Block::generate_work, given what nanopow_rs::generate_work returned.
GenerateWork(b, work) ==
    [block |-> [b EXCEPT !.work = work], value |-> work]

(***************************************************************************)
(* The inputs of the model.                                                *)
(***************************************************************************)
Hash32(b) == Fill(32, b)
Sig64(b) == Fill(64, b)
\* A u64 whose big-endian and little-endian encodings differ.
Work1 == <<1, 2, 3, 4, 5, 6, 7, 8>>
\* A u128 balance.
Balance1 == Fill(12, 0) \o <<1, 0, 0, 7>>

ReceivePayload == [kind |-> "Receive", previous |-> Hash32(17), source |-> Hash32(34)]

\* The peer list of the inbound KeepAlive messages: two addresses that
\* check_addr accepts and one that it rejects.
InboundPeers == <<AddrPublic4, AddrLoop4, AddrGlobal6>>

InboundKeepAlive(net) ==
    Build(WithNetwork(WithData(MessageBuilder("KeepAlive"),
                               KeepAliveInner(InboundPeers)), net))

InboundPublish ==
    Build(WithBlockKind(
            WithData(MessageBuilder("Publish"),
                     PublishInner(NewBlock(ReceivePayload, Some(Sig64(3)),
                                           Some(Work1)))),
            "Receive"))

\* The datagrams the socket delivers.
Datagrams ==
    {SerializeMessage(InboundKeepAlive(net)) : net \in DOMAIN NetworkKindValue}
    \cup {SerializeHeader(InboundKeepAlive("Main").header),
          SerializeHeader(InboundKeepAlive("Beta").header) \o <<82>>,
          SerializeMessage(InboundPublish),
          <<82>>,
          <<82, 67, 5, 5, 1, 9, 0, 0>>}

\* What the framed socket yields for them: MessageCodec::decode of each.
InboundMessages == {Unwrap(CodecDecode(d).item) : d \in Datagrams}

\* The initial peers handed to State::new: every list of at most two
\* distinct addresses, all seen at time 0.
InitialPeers ==
    {<<>>}
    \cup {<<Entry(a, PeerInfo(0))>> : a \in Addrs}
    \cup {<<Entry(ab[1], PeerInfo(0)), Entry(ab[2], PeerInfo(0))>> :
            ab \in {x \in Addrs \X Addrs : x[1] # x[2]}}

(***************************************************************************)
(* Variables.                                                              *)
(***************************************************************************)
VARIABLES
    \* State.peers and State.inactive_peers
    peers, inactive_peers,
    \* the clock read by Instant::now(), in seconds
    now,
    \* NodeConfig.network
    network,
    \* the non-forced add_or_update_peer calls that have read inactive_peers
    \* (line 46) and not yet taken the write locks (line 51)
    pending,
    \* the last call that completed: its arguments and what it returned
    ret,
    \* whether the receive task is still running
    recv_alive,
    \* MessageCodec under test: the message encoded, the buffer, the result
    \* of decode, the result of encode and the datagram decode was given
    cphase, cmsg, cwire, cout, cenc, cin,
    \* generate_work: the worker threads, the channels and the coordinator
    root, max_iters, wpc, wwork, witers, wvalid, wdone, tx, donech, cpc,
    cres, msgs_resvd, csent, work_out,
    \* send_keepalives: the position of the emitter, the peers it cloned at
    \* its last firing, the items of that firing, the firings so far, the
    \* interval ticks taken, and the ticks the two interval timers owe
    epc, esnap, eout, efired, eticks, edue, pdue,
    \* LogErrors: the poll results of the inner stream, those not yet
    \* consumed, the items yielded, and how its consumer sees the stream
    lsrc, linner, lyield, lstate,
    \* The tasks spawned by run: whether each still runs and the error that
    \* ended it; per producer the items its stream yielded, the item
    \* send_all holds back and the errors LogErrors skipped; the channel,
    \* its parked senders, the items handed to the UDP sink, the parity of
    \* the prune ticks and that of the producers' polls that yield nothing
    tstate, tend, produced, held, skips, chan, parked, delivered, pticks,
    polls,
    \* Block::deserialize_bytes under test: its arguments and its result;
    \* the result of BlockPayload::deserialize_bytes on the same arguments
    \* and the bytes serialize_bytes writes for the payload it returned
    bkind, bbytes, bres, pres,
    \* A Block object and the record of the last method called on it
    ob, oret,
    \* A function under test: its name, its argument and its result
    fop, fin, fout,
    \* The threads that call State's methods, each with its call and its
    \* place in it; the holders of the two RwLocks; the calls made so far
    lthr, lock, lcalls

nodeVars == <<peers, inactive_peers, now, network, pending, ret, recv_alive>>
codecVars == <<cphase, cmsg, cwire, cout, cenc, cin>>
powVars ==
    <<root, max_iters, wpc, wwork, witers, wvalid, wdone, tx, donech, cpc,
      cres, msgs_resvd, csent, work_out>>
emitVars == <<epc, esnap, eout, efired, eticks, edue, pdue>>
logVars == <<lsrc, linner, lyield, lstate>>
taskVars ==
    <<tstate, tend, produced, held, skips, chan, parked, delivered, pticks,
      polls>>
blockVars == <<bkind, bbytes, bres, pres>>
objVars == <<ob, oret>>
funVars == <<fop, fin, fout>>
lockVars == <<lthr, lock, lcalls>>
auxVars ==
    <<emitVars, logVars, taskVars, blockVars, objVars, funVars, lockVars>>
\* What the actions of one component leave unchanged outside it.
emitFrame == <<codecVars, powVars, logVars, taskVars, blockVars, objVars,
      funVars, lockVars>>
logFrame ==
    <<nodeVars, codecVars, powVars, emitVars, taskVars, blockVars, objVars,
      funVars, lockVars>>
taskFrame ==
    <<nodeVars, codecVars, powVars, emitVars, logVars, blockVars, objVars,
      funVars, lockVars>>
blockFrame ==
    <<nodeVars, codecVars, powVars, emitVars, logVars, taskVars, objVars,
      funVars, lockVars>>
funFrame ==
    <<nodeVars, codecVars, powVars, emitVars, logVars, taskVars, blockVars,
      objVars, lockVars>>
lockFrame ==
    <<nodeVars, codecVars, powVars, emitVars, logVars, taskVars, blockVars,
      objVars, funVars>>
objFrame ==
    <<nodeVars, codecVars, powVars, emitVars, logVars, taskVars, blockVars,
      funVars, lockVars>>
vars == <<nodeVars, codecVars, powVars, auxVars>>

\* The record of a completed call: op and the arguments peer, force and n;
\* val, count and sample are the value returned (by add_or_update_peer,
\* prune_peers and random_peers), emitted the items process_messages
\* yields; panicked says that the call panicked, called_inactive that a
\* non-forced add_or_update_peer was called on a key of inactive_peers,
\* matched that process_messages let the message through; src and net are
\* the sender and the header network of the message process_messages took,
\* inner the payload handed to the handler.
NoRet ==
    [op |-> "none", peer |-> DefaultAddr, force |-> FALSE, n |-> 0,
     val |-> FALSE, count |-> 0, sample |-> <<>>, panicked |-> FALSE,
     called_inactive |-> FALSE, matched |-> FALSE, emitted |-> <<>>,
     src |-> V6(DefaultAddr), net |-> "Main", inner |-> InvalidInner]

CodecIdle ==
    /\ cphase = "idle"
    /\ cmsg = None
    /\ cwire = <<>>
    /\ cout = None
    /\ cenc = None
    /\ cin = <<>>

PowIdle ==
    /\ root = <<>>
    /\ max_iters = None
    /\ csent = 0
    /\ work_out = None
    /\ wpc = <<>>
    /\ wwork = <<>>
    /\ witers = <<>>
    /\ wvalid = <<>>
    /\ wdone = <<>>
    /\ tx = <<>>
    /\ donech = 0
    /\ cpc = "idle"
    /\ cres = None
    /\ msgs_resvd = 0

EmitIdle ==
    /\ epc = "idle"
    /\ esnap = <<>>
    /\ eout = <<>>
    /\ efired = 0
    /\ eticks = 0
    /\ edue = 0
    /\ pdue = 0

LogIdle ==
    /\ lsrc = <<>>
    /\ linner = <<>>
    /\ lyield = <<>>
    /\ lstate = "idle"

TaskIdle ==
    /\ tstate = <<>>
    /\ tend = <<>>
    /\ produced = <<>>
    /\ held = <<>>
    /\ skips = <<>>
    /\ chan = <<>>
    /\ parked = <<>>
    /\ delivered = <<>>
    /\ pticks = 0
    /\ polls = 0

BlockIdle ==
    /\ bkind = "Invalid"
    /\ bbytes = <<>>
    /\ bres = None
    /\ pres = None

ObjIdle ==
    /\ ob = None
    /\ oret = None

FunIdle ==
    /\ fop = "none"
    /\ fin = <<>>
    /\ fout = None

LockIdle ==
    /\ lthr = <<>>
    /\ lock = <<>>
    /\ lcalls = 0

AuxIdle ==
    /\ EmitIdle
    /\ LogIdle
    /\ TaskIdle
    /\ BlockIdle
    /\ ObjIdle
    /\ FunIdle
    /\ LockIdle

(***************************************************************************)
(* The operations of State as actions.                                     *)
(***************************************************************************)
CallRecord(op, peer, force) ==
    [NoRet EXCEPT !.op = op, !.peer = peer, !.force = force]

\* add_or_update_peer(peer, true): the whole call runs under the two write
\* locks.
AddForced(peer) ==
    LET r == AddLocked(peers, inactive_peers, peer, now)
    IN  /\ peers' = r.peers
        /\ inactive_peers' = r.inactive
        /\ ret' = [CallRecord("add_or_update_peer", peer, TRUE)
                     EXCEPT !.val = r.val]
        /\ UNCHANGED <<now, network, pending, recv_alive, codecVars, powVars, auxVars>>

\* add_or_update_peer(peer, false), lines 45-50: under the read lock of
\* inactive_peers the call either returns false or goes on to line 51.
AddCheck(peer) ==
    IF InactiveGet(inactive_peers, peer)
    THEN /\ ret' = [CallRecord("add_or_update_peer", peer, FALSE)
                      EXCEPT !.called_inactive = TRUE]
         /\ UNCHANGED <<peers, inactive_peers, now, network, pending,
                        recv_alive, codecVars, powVars, auxVars>>
    ELSE /\ Cardinality(pending) < MaxPending
         /\ pending' = pending \cup
               {[peer |-> peer,
                 called_inactive |-> peer \in Keys(inactive_peers)]}
         /\ UNCHANGED <<peers, inactive_peers, now, network, ret,
                        recv_alive, codecVars, powVars, auxVars>>

\* add_or_update_peer(peer, false), lines 51-70: the write-locked region of
\* a call that passed line 47.
AddCommit(p) ==
    LET r == AddLocked(peers, inactive_peers, p.peer, now)
    IN  /\ peers' = r.peers
        /\ inactive_peers' = r.inactive
        /\ pending' = pending \ {p}
        /\ ret' = [CallRecord("add_or_update_peer", p.peer, FALSE)
                     EXCEPT !.val = r.val,
                            !.called_inactive = p.called_inactive]
        /\ UNCHANGED <<now, network, recv_alive, codecVars, powVars, auxVars>>

PrunePeers ==
    LET r == PrunePeersOp(peers, inactive_peers, now)
    IN  /\ peers' = r.peers
        /\ inactive_peers' = r.inactive
        /\ ret' = [CallRecord("prune_peers", DefaultAddr, FALSE)
                     EXCEPT !.count = r.val]
        /\ UNCHANGED <<now, network, pending, recv_alive, codecVars, powVars, auxVars>>

RemovePeer(peer) ==
    /\ peers' = RemovePeerOp(peers, peer)
    /\ ret' = CallRecord("remove_peer", peer, FALSE)
    /\ UNCHANGED <<inactive_peers, now, network, pending, recv_alive,
                   codecVars, powVars, auxVars>>

\* random_peers(n): the call panics in gen_range when peers is empty and
\* n > 0; the read guard it drops does not poison the lock.
RandomPeers(n) ==
    /\ IF RandomPeersPanics(peers, n)
       THEN ret' = [CallRecord("random_peers", DefaultAddr, FALSE)
                      EXCEPT !.n = n, !.panicked = TRUE]
       ELSE \E draws \in Draws(n, Len(peers)) :
              ret' = [CallRecord("random_peers", DefaultAddr, FALSE)
                        EXCEPT !.n = n,
                               !.sample = RandomPeersOp(peers, draws)]
    /\ UNCHANGED <<peers, inactive_peers, now, network, pending, recv_alive,
                   codecVars, powVars, auxVars>>

\* Time passes.
Tick ==
    /\ now + TimeStep <= MaxTime
    /\ now' = now + TimeStep
    /\ UNCHANGED <<peers, inactive_peers, network, pending, ret, recv_alive,
                   codecVars, powVars, auxVars>>

TableInit ==
    /\ peers \in InitialPeers
    /\ inactive_peers = <<>>
    /\ now = 0
    /\ network = "Main"
    /\ pending = {}
    /\ ret = NoRet
    /\ recv_alive = TRUE
    /\ CodecIdle
    /\ PowIdle
    /\ AuxIdle

TableNext ==
    \/ \E peer \in Addrs : AddForced(peer)
    \/ \E peer \in Addrs : AddCheck(peer)
    \/ \E p \in pending : AddCommit(p)
    \/ PrunePeers
    \/ \E peer \in Addrs : RemovePeer(peer)
    \/ \E n \in 0..MaxSample : RandomPeers(n)
    \/ Tick

\* The peer table under every interleaving of calls of its methods.
SpecTable == TableInit /\ [][TableNext]_vars

(***************************************************************************)
(* Properties of the peer table.                                           *)
(***************************************************************************)
\* C1: after any interleaving of add_or_update_peer, prune_peers and
\* remove_peer from State::new, no address is a key of both peers and
\* inactive_peers.
C1_MapsDisjoint == Keys(peers) \cap Keys(inactive_peers) = {}

\* A forced add has put its peer in peers while inactive_peers holds
\* another peer.
C1_Witness ==
    /\ ret.op = "add_or_update_peer"
    /\ ret.force
    /\ ret.peer \in Keys(peers)
    /\ inactive_peers # <<>>

\* C5: add_or_update_peer(peer, false) called while peer is a key of
\* inactive_peers returns false at once and leaves both maps as they were.
C5_NonForcedInactiveNoOp ==
    [][\A peer \in Addrs :
         (AddCheck(peer) /\ peer \in Keys(inactive_peers)) =>
            /\ ret'.op = "add_or_update_peer"
            /\ ret'.peer = peer
            /\ ~ret'.force
            /\ ret'.val = FALSE
            /\ UNCHANGED <<peers, inactive_peers, pending>>]_vars

\* A non-forced call on an inactive peer has returned false.
C5_Witness ==
    /\ ret.op = "add_or_update_peer"
    /\ ~ret.force
    /\ ret.called_inactive
    /\ ~ret.val
    /\ ret.peer \in Keys(inactive_peers)
    /\ ret.peer \notin Keys(peers)

\* What C6 says of a call on peer that returns in this step; the state
\* before the call is the state in which the call takes its locks.
C6_Returns(peer) ==
    /\ ret'.op = "add_or_update_peer"
    /\ ret'.peer = peer
    /\ ret'.val = (/\ peer \notin Keys(peers)
                   /\ peer \notin Keys(inactive_peers)
                   /\ check_addr(peer))
    /\ ret'.val =>
         /\ peer \in Keys(peers')
         /\ MapGet(peers', peer).last_seen = now
         /\ Len(peers') = Len(peers) + 1

\* C6: add_or_update_peer returns true exactly when the peer was a key of
\* neither map and check_addr(peer) holds, and then the peer is in peers
\* with last_seen = now; a peer already active, a peer reclaimed from
\* inactive_peers, a peer check_addr rejects and a non-forced call on an
\* inactive peer all return false.
C6_ReturnsTrueIffNew ==
    [][/\ \A peer \in Addrs :
            /\ AddForced(peer) => C6_Returns(peer)
            /\ (AddCheck(peer) /\ peer \in Keys(inactive_peers)) =>
                  C6_Returns(peer)
       /\ \A p \in pending : AddCommit(p) => C6_Returns(p.peer)]_vars

\* A call has returned true and its peer is in peers, seen now.
C6_Witness ==
    /\ ret.op = "add_or_update_peer"
    /\ ret.val
    /\ ret.peer \in Keys(peers)
    /\ MapGet(peers, ret.peer).last_seen = now
    /\ now > 0

\* The entries of peers older than 300 seconds.
C7_Old == {a \in Keys(peers) : now - MapGet(peers, a).last_seen > 300}

\* C7: prune_peers moves to inactive_peers exactly the entries of peers
\* whose age is strictly above 300 seconds, keeps their last_seen, leaves
\* every other entry of both maps as it was and returns the number moved.
C7_PruneMovesOld ==
    [][PrunePeers =>
         /\ Keys(peers') = Keys(peers) \ C7_Old
         /\ Keys(inactive_peers') = Keys(inactive_peers) \cup C7_Old
         /\ \A a \in C7_Old : MapGet(inactive_peers', a) = MapGet(peers, a)
         /\ \A a \in Keys(peers') : MapGet(peers', a) = MapGet(peers, a)
         /\ \A a \in Keys(inactive_peers) \ C7_Old :
               MapGet(inactive_peers', a) = MapGet(inactive_peers, a)
         /\ ret'.count = Cardinality(C7_Old)]_vars

\* prune_peers has moved one entry and kept another whose age is exactly
\* 300 seconds.
C7_Witness ==
    /\ ret.op = "prune_peers"
    /\ ret.count = 1
    /\ \E a \in Keys(inactive_peers) :
          now - MapGet(inactive_peers, a).last_seen > KEEPALIVE_CUTOFF
    /\ \E a \in Keys(peers) :
          now - MapGet(peers, a).last_seen = KEEPALIVE_CUTOFF

\* C8: for every n and every reachable peer table, random_peers(n) returns
\* a list of exactly n addresses, each a key of peers, none taken from
\* inactive_peers.
C8_RandomPeersReturnsN ==
    ret.op = "random_peers" =>
       /\ ~ret.panicked
       /\ Len(ret.sample) = ret.n
       /\ \A i \in 1..Len(ret.sample) : ret.sample[i] \in Keys(peers)

(***************************************************************************)
(* The node: the receive task and the prune task on the shared State.      *)
(***************************************************************************)
\* process_messages on one item of the receive stream, mod.rs lines 38-54.
\* A panic of random_peers inside handler::keepalive ends the receive task.
ProcessMessage(msg, src) ==
    LET src_addr_v6 == to_ipv6(src)
        r == AddLocked(peers, inactive_peers, src_addr_v6, now)
        call == [CallRecord("process_messages", src_addr_v6, TRUE)
                   EXCEPT !.src = src, !.net = msg.header.network,
                          !.inner = msg.inner]
    IN  /\ recv_alive
        /\ IF NetworkMatches(network, msg)
           THEN /\ peers' = r.peers
                /\ inactive_peers' = r.inactive
                /\ IF HandlerSamples(msg)
                   THEN IF RandomPeersPanics(r.peers, KEEPALIVE_SAMPLE)
                        THEN /\ ret' = [call EXCEPT !.val = r.val,
                                                    !.matched = TRUE,
                                                    !.panicked = TRUE]
                             /\ recv_alive' = FALSE
                        ELSE /\ \E draws \in Draws(KEEPALIVE_SAMPLE, Len(r.peers)) :
                                  ret' = [call EXCEPT
                                            !.val = r.val,
                                            !.matched = TRUE,
                                            !.emitted = HandlerKeepalive(
                                               msg, RandomPeersOp(r.peers, draws))]
                             /\ UNCHANGED recv_alive
                   ELSE /\ ret' = [call EXCEPT !.val = r.val, !.matched = TRUE]
                        /\ UNCHANGED recv_alive
           ELSE /\ ret' = [call EXCEPT !.force = FALSE,
                                        !.inner = InvalidInner]
                /\ UNCHANGED <<peers, inactive_peers, recv_alive>>
        /\ UNCHANGED <<now, network, pending, codecVars, powVars, auxVars>>

\* The prune task, mod.rs lines 79-87: one tick of its interval.
PruneTick == PrunePeers

NodeInit ==
    /\ peers \in InitialPeers
    /\ inactive_peers = <<>>
    /\ now = 0
    /\ network \in DOMAIN NetworkKindValue
    /\ pending = {}
    /\ ret = NoRet
    /\ recv_alive = TRUE
    /\ CodecIdle
    /\ PowIdle
    /\ AuxIdle

Next ==
    \/ \E msg \in InboundMessages, src \in Senders : ProcessMessage(msg, src)
    \/ PruneTick
    \/ Tick

Init == NodeInit

Spec == Init /\ [][Next]_vars

(***************************************************************************)
(* Properties of process_messages.                                         *)
(***************************************************************************)
\* A step in which process_messages has taken a message: ProcessMessage is
\* the only action that leaves "process_messages" in ret.op and the clock
\* unchanged, and it records the sender and the header network in ret.
Processed == ret'.op = "process_messages" /\ now' = now

\* C9: for an inbound message whose header network differs from the
\* configured network, process_messages emits nothing and leaves the peer
\* table as it was.
C9_OtherNetworkIgnored ==
    [][(Processed /\ ret'.net # network) =>
          /\ ret'.emitted = <<>>
          /\ ~ret'.panicked
          /\ UNCHANGED <<peers, inactive_peers, recv_alive>>]_vars

\* A message of another network has been processed.
C9_Witness ==
    /\ ret.op = "process_messages"
    /\ ret.net # network
    /\ ret.emitted = <<>>

\* The IPv6 form of a sender: an IPv4 sender becomes ::ffff:a.b.c.d.
C10_SenderV6(src) ==
    IF src.v = 4
    THEN [ip |-> <<0, 0, 0, 0, 0, 0, 0, 0, 0, 0, 255, 255>> \o src.ip,
          port |-> src.port, flowinfo |-> 0, scope_id |-> 0]
    ELSE src.a

\* C10: for every inbound message of the configured network, whatever its
\* kind and payload, the sender in IPv6 form goes through
\* add_or_update_peer(sender, true) before the message is dispatched:
\* afterwards the sender is in peers whenever it was in either map or
\* passes check_addr, and the handler sampled the table that holds it.
C10_SenderRecorded ==
    [][(Processed /\ ret'.net = network) =>
          /\ ret'.matched
          /\ ret'.force
          /\ ret'.peer = C10_SenderV6(ret'.src)
          /\ (\/ ret'.peer \in Keys(peers)
              \/ ret'.peer \in Keys(inactive_peers)
              \/ check_addr(ret'.peer))
             => /\ ret'.peer \in Keys(peers')
                /\ ret'.peer \notin Keys(inactive_peers')
                /\ MapGet(peers', ret'.peer).last_seen = now
                /\ ~ret'.panicked]_vars

\* A message of the configured network has been processed and its sender,
\* which was inactive or new, is in peers.
C10_Witness ==
    /\ ret.op = "process_messages"
    /\ ret.net = network
    /\ ret.force
    /\ ret.src.v = 4
    /\ ret.peer \in Keys(peers)
    /\ inactive_peers # <<>>

(***************************************************************************)
(* MessageCodec applied to messages and to raw datagrams.                  *)
(***************************************************************************)
\* The block payloads, one of each shape.
BlockPayloads ==
    {[kind |-> "Send", previous |-> Hash32(17), destination |-> Hash32(51),
      balance |-> Balance1],
     ReceivePayload,
     [kind |-> "Open", source |-> Hash32(34), representative |-> Hash32(68),
      account |-> Hash32(85)],
     [kind |-> "Change", previous |-> Hash32(17),
      representative |-> Hash32(68)],
     [kind |-> "State", account |-> Hash32(85), previous |-> Hash32(17),
      representative |-> Hash32(68), balance |-> Balance1,
      link |-> Hash32(102)]}

\* Blocks with and without signature and work.
Blocks ==
    {NewBlock(p, sig, w) :
        p \in BlockPayloads, sig \in {None, Some(Sig64(3))},
        w \in {None, Some(Work1)}}

\* KeepAlive peer lists of exactly 8 addresses.
PeerLists8 ==
    {Fill(8, AddrGlobal6), Fill(8, AddrPublic4),
     Fill(8, SocketAddrV6(Fill(16, 0), 7075, 0, 0)),
     <<AddrGlobal6, AddrPublic4, AddrLoop4, AddrPortZero, DefaultAddr,
       AddrGlobal6, AddrGlobal6, AddrPublic4>>}

\* KeepAlive peer lists of other lengths: none, fewer than 8, more than 8.
PeerListsOther ==
    {<<>>, <<AddrPublic4>>, <<AddrGlobal6, AddrPortZero, AddrLoop4>>,
     <<AddrGlobal6, AddrPublic4, AddrLoop4, AddrPortZero, AddrPublic4,
       AddrGlobal6, AddrLoop4, AddrPublic4, AddrGlobal6>>,
     Fill(8, AddrPublic4) \o <<AddrGlobal6, AddrLoop4>>}

\* The KeepAlive messages built from them.
OtherKeepAlives ==
    {Build(WithData(MessageBuilder("KeepAlive"), KeepAliveInner(l))) :
        l \in PeerListsOther}

\* The messages whose payload variant matches their kind.
ValidMessages ==
    {Build(WithNetwork(WithData(MessageBuilder("KeepAlive"),
                                KeepAliveInner(l)), net)) :
        l \in PeerLists8, net \in DOMAIN NetworkKindValue}
    \cup {Build(WithBlockKind(WithData(MessageBuilder("Publish"),
                                       PublishInner(b)), b.payload.kind)) :
            b \in Blocks}
    \cup {Build(WithBlockKind(WithData(MessageBuilder("ConfirmReq"),
                                       ConfirmReqInner(b)), b.payload.kind)) :
            b \in Blocks}
    \cup {Build(WithBlockKind(
                  WithData(MessageBuilder("ConfirmAck"),
                           ConfirmAckInner(Hash32(119), Sig64(5), Work1, b)),
                  b.payload.kind)) :
            b \in Blocks}

\* Raw datagrams: a KeepAlive cut at every length up to two peers, and
\* headers with a byte that is no enumerator or no magic number.
KeepAliveWire == SerializeMessage(InboundKeepAlive("Main"))
RawDatagrams ==
    {SubSeq(KeepAliveWire, 1, n) : n \in 0..44}
    \cup {<<82, 68, 5, 5, 1, 2, 0, 0>>, <<82, 67, 7, 5, 1, 2, 0, 0>>,
          <<82, 67, 5, 0, 1, 2, 0, 0>>, <<82, 67, 5, 5, 9, 2, 0, 0>>,
          <<82, 67, 5, 5, 1, 9, 0, 0>>, <<82, 67, 5, 5, 1, 2, 7, 0>>,
          <<82, 67, 5, 5, 1, 2, 0, 255>>, <<83, 67, 5, 5, 1, 2, 0, 0>>}

\* MessageCodec::encode of a message into an empty buffer.
CodecEncodeStep(m) ==
    /\ cphase = "idle"
    /\ cmsg' = Some(m)
    /\ cwire' = CodecEncode(m).bytes
    /\ cenc' = Some(CodecEncode(m).ok)
    /\ cphase' = "encoded"
    /\ cout' = None
    /\ cin' = <<>>
    /\ UNCHANGED <<nodeVars, powVars, auxVars>>

\* A datagram arrives from the network.
CodecArrive(d) ==
    /\ cphase = "idle"
    /\ cmsg' = None
    /\ cwire' = d
    /\ cphase' = "received"
    /\ cout' = None
    /\ cenc' = None
    /\ cin' = <<>>
    /\ UNCHANGED <<nodeVars, powVars, auxVars>>

\* MessageCodec::decode of the buffer; buf.take() leaves it empty.
CodecDecodeStep ==
    /\ cphase \in {"encoded", "received"}
    /\ cout' = CodecDecode(cwire)
    /\ cwire' = <<>>
    /\ cin' = cwire
    /\ cphase' = "decoded"
    /\ UNCHANGED <<cmsg, cenc, nodeVars, powVars, auxVars>>

\* MessageCodec::encode of the message decode returned, into an empty
\* buffer.
CodecReencodeStep ==
    /\ cphase = "decoded"
    /\ cmsg = None
    /\ cenc' = Some(CodecEncode(Unwrap(cout.item)).ok)
    /\ cwire' = CodecEncode(Unwrap(cout.item)).bytes
    /\ cphase' = "reencoded"
    /\ UNCHANGED <<cmsg, cout, cin, nodeVars, powVars, auxVars>>

CodecReset ==
    /\ cphase \in {"decoded", "reencoded"}
    /\ cphase' = "idle"
    /\ cmsg' = None
    /\ cout' = None
    /\ cenc' = None
    /\ cin' = <<>>
    /\ UNCHANGED <<cwire, nodeVars, powVars, auxVars>>

NodeIdle ==
    /\ peers = <<>>
    /\ inactive_peers = <<>>
    /\ now = 0
    /\ network = "Main"
    /\ pending = {}
    /\ ret = NoRet
    /\ recv_alive = TRUE

CodecInit == NodeIdle /\ CodecIdle /\ PowIdle /\ AuxIdle

CodecNext ==
    \/ \E m \in ValidMessages \cup OtherKeepAlives : CodecEncodeStep(m)
    \/ \E d \in RawDatagrams : CodecArrive(d)
    \/ CodecDecodeStep
    \/ CodecReencodeStep
    \/ CodecReset

SpecCodec == CodecInit /\ [][CodecNext]_vars

\* The entries of a received address list that check_addr accepts.
C11_Accepted(l) == SelectSeq(l, check_addr)

\* C11: on a KeepAlive message whose payload is the address list L, the
\* keepalive handler emits exactly one KeepAlive for each entry of L that
\* passes check_addr, addressed to that entry, and none for the entries
\* that fail; every emitted KeepAlive carries 8 addresses sampled from the
\* active map.
C11_KeepAliveReplies ==
    [][(Processed /\ ret'.net = network /\ ret'.inner.tag = "KeepAlive") =>
          /\ ~ret'.panicked
          /\ Len(ret'.emitted) = Len(C11_Accepted(ret'.inner.peers))
          /\ \A i \in 1..Len(ret'.emitted) :
                /\ ret'.emitted[i].dest = V6(C11_Accepted(ret'.inner.peers)[i])
                /\ ret'.emitted[i].msg.header.kind = "KeepAlive"
                /\ ret'.emitted[i].msg.inner.tag = "KeepAlive"
                /\ Len(ret'.emitted[i].msg.inner.peers) = 8
                /\ \A j \in 1..8 :
                      ret'.emitted[i].msg.inner.peers[j] \in Keys(peers')]_vars

(***************************************************************************)
(* Properties of MessageCodec.                                             *)
(***************************************************************************)
\* Buffers Message::deserialize_bytes fails on: fewer than 8 bytes, or a
\* header byte that is no enumerator of its field.
C2_Fails(buf) ==
    \/ Len(buf) < 8
    \/ buf[2] \notin {65, 66, 67}
    \/ \E i \in 3..5 : buf[i] \notin 1..6
    \/ buf[6] \notin 0..8
    \/ buf[7] \notin 0..6

\* C2: MessageCodec::decode returns Ok(Some(message)) for every buffer and
\* never an error; when Message::deserialize_bytes fails (fewer than 8
\* bytes, such as the single byte 0x52, or a header that does not
\* deserialize) the message is of kind Invalid.
C2_DecodeNeverFails ==
    [][CodecDecodeStep =>
         /\ cout'.ok
         /\ IsSome(cout'.item)
         /\ C2_Fails(cwire) =>
               /\ Unwrap(cout'.item).header.kind = "Invalid"
               /\ Unwrap(cout'.item).inner = InvalidInner]_vars

\* A datagram that does not deserialize has been decoded to an Invalid
\* message.
C2_Witness ==
    /\ cphase = "decoded"
    /\ cmsg = None
    /\ cout.ok
    /\ IsSome(cout.item)
    /\ Unwrap(cout.item).header.kind = "Invalid"

\* C4: for every valid message built with MessageBuilder (KeepAlive with 8
\* addresses; Publish, ConfirmReq and ConfirmAck with a block of the
\* header's block_kind, with or without signature and work),
\* decode(encode(m)) = m.
C4_RoundTrip ==
    (cphase = "decoded" /\ IsSome(cmsg) /\ Unwrap(cmsg) \in ValidMessages)
        => (cout.ok /\ cout.item = cmsg)

\* The i-th 18-byte entry of the body that follows the 8 header bytes.
C17_Entry(wire, i) == SubSeq(wire, 8 + 18 * (i - 1) + 1, 8 + 18 * i)

\* C17: for a peer list L of any length (0 and more than 8 included) the
\* encoded KeepAlive body is exactly 8 entries of 18 bytes: the first
\* min(|L|, 8) entries of L in order, then [::]:0 fillers; decoding it
\* yields a list of length 8.
C17_KeepAliveBodyIs8 ==
    (IsSome(cmsg) /\ Unwrap(cmsg).inner.tag = "KeepAlive") =>
        LET L == Unwrap(cmsg).inner.peers IN
        /\ cphase = "encoded" =>
              /\ Len(cwire) = 8 + 144
              /\ \A i \in 1..8 :
                    C17_Entry(cwire, i) =
                        IF i <= Len(L)
                        THEN L[i].ip \o <<L[i].port % 256, L[i].port \div 256>>
                        ELSE Fill(18, 0)
        /\ cphase = "decoded" =>
              /\ cout.ok
              /\ IsSome(cout.item)
              /\ Unwrap(cout.item).inner.tag = "KeepAlive"
              /\ Len(Unwrap(cout.item).inner.peers) = 8
              /\ \A i \in 1..8 :
                    Unwrap(cout.item).inner.peers[i] =
                        IF i <= Len(L) THEN L[i] ELSE DefaultAddr

\* A KeepAlive built with more than 8 peers has been encoded and decoded.
C17_Witness ==
    /\ cphase = "decoded"
    /\ IsSome(cmsg)
    /\ Unwrap(cmsg).inner.tag = "KeepAlive"
    /\ Len(Unwrap(cmsg).inner.peers) > 8
    /\ Len(Unwrap(cout.item).inner.peers) = 8

\* The body of a datagram: what follows the 8 header bytes.
C18_Body(wire) == SubSeq(wire, 9, Len(wire))

\* C18: a datagram with a valid header of kind KeepAlive (byte 2 in the
\* sixth place) decodes to a message of kind KeepAlive; its payload is
\* Invalid when the body holds no complete 18-byte chunk, and otherwise the
\* list of the complete chunks in order (16 octets, then the port
\* little-endian), a trailing partial chunk being ignored.
C18_KeepAliveBodyChunks ==
    [][(CodecDecodeStep /\ ~C2_Fails(cwire) /\ cwire[6] = 2) =>
         LET body == C18_Body(cwire)
             n == Len(body) \div 18
             m == Unwrap(cout'.item)
         IN  /\ cout'.ok
             /\ IsSome(cout'.item)
             /\ m.header.kind = "KeepAlive"
             /\ n = 0 => m.inner = InvalidInner
             /\ n > 0 =>
                   /\ m.inner.tag = "KeepAlive"
                   /\ Len(m.inner.peers) = n
                   /\ \A i \in 1..n :
                         /\ m.inner.peers[i].ip =
                               SubSeq(body, 18 * (i - 1) + 1, 18 * (i - 1) + 16)
                         /\ m.inner.peers[i].port =
                               body[18 * i - 1] + 256 * body[18 * i]]_vars

\* A received datagram with a KeepAlive header and a body shorter than one
\* chunk has been decoded.
C18_Witness ==
    /\ cphase = "decoded"
    /\ cmsg = None
    /\ cout.ok
    /\ Unwrap(cout.item).header.kind = "KeepAlive"
    /\ Unwrap(cout.item).inner = InvalidInner

\* Datagrams of at least 8 bytes with a header byte that is no enumerator
\* of its field.
C19_BadEnumerator(buf) == Len(buf) >= 8 /\ C2_Fails(buf)

\* C19: a datagram of at least 8 bytes with a header byte that is not a
\* defined enumerator decodes to a message of kind Invalid, and encoding
\* that decoded message fails with an error.
C19_InvalidHeaderNoReencode ==
    C19_BadEnumerator(cin) =>
        /\ cphase \in {"decoded", "reencoded"} =>
              Unwrap(cout.item).header.kind = "Invalid"
        /\ cphase = "reencoded" => cenc = Some(FALSE)

(***************************************************************************)
(* generate_work: the worker threads and the coordinator.                  *)
(***************************************************************************)
Workers == 1..NumCpus

\* The values rng.gen::<[u8; 8]>() returns.
Nonces ==
    {<<1, 0, 0, 0, 0, 0, 0, 0>>, <<0, 1, 0, 0, 0, 0, 0, 0>>,
     <<0, 0, 1, 0, 0, 0, 0, 0>>, <<3, 0, 0, 0, 0, 0, 0, 1>>}

\* The roots work is generated for.
Roots == {Hash32(0), Hash32(1)}

PowInit ==
    /\ NodeIdle
    /\ CodecIdle
    /\ root \in Roots
    /\ max_iters \in {None} \cup {Some(m) : m \in 0..MaxIters}
    /\ wpc = [w \in Workers |-> "start"]
    /\ wwork = [w \in Workers |-> Fill(8, 0)]
    /\ witers = [w \in Workers |-> 0]
    /\ wvalid = [w \in Workers |-> FALSE]
    /\ wdone = [w \in Workers |-> FALSE]
    /\ tx = <<>>
    /\ donech = 0
    /\ cpc = "recv"
    /\ cres = None
    /\ msgs_resvd = 0
    /\ csent = 0
    /\ work_out = None
    /\ AuxIdle

\* try_recv that reads a sentinel and leaves it on the channel.
TryRecvDonePeek(w) ==
    /\ wdone' = [wdone EXCEPT ![w] = donech > 0]
    /\ donech' = donech

\* donerx.try_recv().unwrap_or(false): takes a sentinel when there is one.
TryRecvDone(w) ==
    /\ wdone' = [wdone EXCEPT ![w] = donech > 0]
    /\ donech' = IF donech > 0 THEN donech - 1 ELSE donech

\* Lines 183-187: a worker starts and polls the cancel channel.
WorkerStart(w) ==
    /\ wpc[w] = "start"
    /\ TryRecvDone(w)
    /\ wpc' = [wpc EXCEPT ![w] = "loop"]
    /\ UNCHANGED <<root, max_iters, wwork, witers, wvalid, tx, cpc, cres,
                   msgs_resvd, csent, work_out, nodeVars, codecVars, auxVars>>

\* Lines 188-196: one iteration of the search loop.
WorkerIterate(w) ==
    /\ wpc[w] = "loop"
    /\ WorkerContinues(wvalid[w], wdone[w], witers[w],
                       EffectiveMaxIters(max_iters, NumCpus), NumCpus)
    /\ \E work \in Nonces :
         /\ wwork' = [wwork EXCEPT ![w] = work]
         /\ wvalid' = [wvalid EXCEPT ![w] =
                         check_result_threshold(hash_work_internal(work, root))]
    /\ witers' = [witers EXCEPT ![w] = IF IsSome(max_iters) THEN @ + 1 ELSE @]
    /\ TryRecvDone(w)
    /\ UNCHANGED <<root, max_iters, wpc, tx, cpc, cres, msgs_resvd, csent,
                   work_out, nodeVars, codecVars, auxVars>>

\* Lines 197-204: the loop is left; the worker returns when cancelled and
\* sends its result otherwise.  The send waits while the channel is full.
WorkerFinish(w) ==
    /\ wpc[w] = "loop"
    /\ ~WorkerContinues(wvalid[w], wdone[w], witers[w],
                        EffectiveMaxIters(max_iters, NumCpus), NumCpus)
    /\ wdone[w] \/ Len(tx) < ChannelCapacity(NumCpus)
    /\ tx' = IF wdone[w] THEN tx
             ELSE IF wvalid[w] THEN Append(tx, Some(wwork[w]))
             ELSE Append(tx, None)
    /\ wpc' = [wpc EXCEPT ![w] = "exit"]
    /\ UNCHANGED <<root, max_iters, wwork, witers, wvalid, wdone, donech,
                   cpc, cres, msgs_resvd, csent, work_out, nodeVars,
                   codecVars, auxVars>>

\* Line 207: the coordinator's first rx.recv().
CoordinatorRecvFirst ==
    /\ cpc = "recv"
    /\ tx # <<>>
    /\ cres' = Head(tx)
    /\ tx' = Tail(tx)
    /\ cpc' = "more"
    /\ UNCHANGED <<root, max_iters, wpc, wwork, witers, wvalid, wdone,
                   donech, msgs_resvd, csent, work_out, nodeVars, codecVars, auxVars>>

\* Lines 209-212: one more rx.recv() while the result is None.
CoordinatorRecvMore ==
    /\ cpc = "more"
    /\ CoordinatorContinues(cres, msgs_resvd, NumCpus)
    /\ tx # <<>>
    /\ cres' = Head(tx)
    /\ tx' = Tail(tx)
    /\ msgs_resvd' = msgs_resvd + 1
    /\ UNCHANGED <<root, max_iters, wpc, wwork, witers, wvalid, wdone,
                   donech, cpc, csent, work_out, nodeVars, codecVars, auxVars>>

\* Lines 213-215: donetx.send(true), numcpus times; the send waits while
\* the channel is full.
CoordinatorCancel ==
    /\ \/ cpc = "more" /\ ~CoordinatorContinues(cres, msgs_resvd, NumCpus)
       \/ cpc = "cancel"
    /\ csent < NumCpus
    /\ donech < ChannelCapacity(NumCpus)
    /\ donech' = donech + 1
    /\ csent' = csent + 1
    /\ cpc' = "cancel"
    /\ UNCHANGED <<root, max_iters, wpc, wwork, witers, wvalid, wdone, tx,
                   cres, msgs_resvd, work_out, nodeVars, codecVars, auxVars>>

\* Lines 216-217 and 166-171: the scope joins the workers and
\* generate_work returns the Work.
CoordinatorReturn ==
    /\ cpc = "cancel"
    /\ csent = NumCpus
    /\ \A w \in Workers : wpc[w] = "exit"
    /\ work_out' = WorkOfBytes(cres)
    /\ cpc' = "returned"
    /\ UNCHANGED <<root, max_iters, wpc, wwork, witers, wvalid, wdone, tx,
                   donech, cres, msgs_resvd, csent, nodeVars, codecVars, auxVars>>

PowNext ==
    \/ \E w \in Workers : WorkerStart(w)
    \/ \E w \in Workers : WorkerIterate(w)
    \/ \E w \in Workers : WorkerFinish(w)
    \/ CoordinatorRecvFirst
    \/ CoordinatorRecvMore
    \/ CoordinatorCancel
    \/ CoordinatorReturn

SpecPow == PowInit /\ [][PowNext]_vars

\* The operating system schedules every thread that can take a step: the
\* scoped worker threads and the thread that called generate_work.
PowFairness ==
    /\ \A w \in Workers : WF_vars(WorkerStart(w))
    /\ \A w \in Workers : WF_vars(WorkerIterate(w))
    /\ \A w \in Workers : WF_vars(WorkerFinish(w))
    /\ WF_vars(CoordinatorRecvFirst)
    /\ WF_vars(CoordinatorRecvMore)
    /\ WF_vars(CoordinatorCancel)
    /\ WF_vars(CoordinatorReturn)

SpecPowFair == PowInit /\ [][PowNext]_vars /\ PowFairness

(***************************************************************************)
(* Properties of generate_work.                                            *)
(***************************************************************************)
\* C3: whenever generate_work(R, max_iters) returns Some(w), check_work(R, w)
\* is true, for every root, every number of workers and every interleaving
\* of the workers with the coordinator.
C3_GeneratedWorkChecks ==
    (cpc = "returned" /\ IsSome(work_out)) => check_work(root, Unwrap(work_out))

\* generate_work has returned Some(w).
C3_Witness == cpc = "returned" /\ IsSome(work_out)

\* A worker has used up its budget: it left the loop without a valid nonce
\* and without a cancel.
C24_Exhausted(w) ==
    /\ wpc[w] = "exit"
    /\ ~wvalid[w]
    /\ ~wdone[w]
    /\ witers[w] >= EffectiveMaxIters(max_iters, NumCpus) \div NumCpus

\* C24: with a finite max_iters, generate_work terminates under every
\* interleaving: every worker thread exits and the coordinator returns, so
\* it never blocks for ever on the result channel; it returns None only
\* after all N workers have reported an exhausted budget, and otherwise the
\* valid nonce it received.
C24_FiniteBudgetTerminates ==
    /\ IsSome(max_iters) =>
          <>(cpc = "returned" /\ \A w \in Workers : wpc[w] = "exit")
    /\ [](cpc = "returned" /\ IsSome(max_iters) =>
            /\ ~IsSome(work_out) =>
                  /\ msgs_resvd = NumCpus - 1
                  /\ \A w \in Workers : C24_Exhausted(w)
            /\ IsSome(work_out) =>
                  /\ IsSome(cres)
                  /\ \E w \in Workers :
                        wvalid[w] /\ wwork[w] = Unwrap(cres))

\* generate_work with a finite budget has returned None after every worker
\* ran out of iterations.
C24_Witness ==
    /\ cpc = "returned"
    /\ IsSome(max_iters)
    /\ Unwrap(max_iters) >= NumCpus
    /\ ~IsSome(work_out)
    /\ \A w \in Workers : C24_Exhausted(w) /\ witers[w] > 0

\* A worker that is still searching: in its loop with the condition true.
C25_Searching(w) ==
    /\ wpc[w] = "loop"
    /\ WorkerContinues(wvalid[w], wdone[w], witers[w],
                       EffectiveMaxIters(max_iters, NumCpus), NumCpus)

\* C25: after the coordinator has received a valid nonce and put its N
\* cancel sentinels on the cancel channel, every worker that is still
\* searching eventually receives one through try_recv and exits, without
\* publishing a result; no worker consumes more than one sentinel, so the
\* sentinels sent are those still on the channel plus one for each worker
\* that has seen a cancel.
C25_CancelReachesWorkers ==
    /\ [](donech + Cardinality({w \in Workers : wdone[w]}) = csent)
    /\ \A w \in Workers :
          (IsSome(cres) /\ csent = NumCpus /\ C25_Searching(w))
              ~> (wpc[w] = "exit" /\ wdone[w])
    /\ [][\A w \in Workers :
             (wpc[w] = "loop" /\ wpc'[w] = "exit" /\ wdone[w]) => tx' = tx]_vars

\* The coordinator got a valid nonce and sent the sentinels, and a worker
\* that was still searching without a budget has taken one and left.
C25_Witness ==
    /\ IsSome(cres)
    /\ csent = NumCpus
    /\ ~IsSome(max_iters)
    /\ \E w \in Workers : wpc[w] = "exit" /\ wdone[w] /\ ~wvalid[w]
    /\ \E w \in Workers : wpc[w] = "exit" /\ ~wdone[w] /\ wvalid[w]

(***************************************************************************)
(* send_keepalives and the prune task (src/src/node/mod.rs, 59-87), run    *)
(* by the thread pool together with the receive task's forced adds.        *)
(***************************************************************************)
\* The ticks an interval timer of the given period owes for the time from
\* t0 to t1.
TicksBetween(t0, t1, period) == (t1 \div period) - (t0 \div period)

\* The peers of this node: the configured ones and the senders it hears.
EmitAddrs == {AddrGlobal6, AddrPublic4}

EmitInit ==
    /\ peers \in {p \in InitialPeers : Keys(p) \subseteq EmitAddrs}
    /\ inactive_peers = <<>>
    /\ now = 0
    /\ network = "Main"
    /\ pending = {}
    /\ ret = NoRet
    /\ recv_alive = TRUE
    /\ CodecIdle
    /\ PowIdle
    /\ epc = "start"
    /\ esnap = <<>>
    /\ eout = <<>>
    /\ efired = 0
    /\ eticks = 0
    /\ edue = 0
    /\ pdue = 0
    /\ LogIdle
    /\ TaskIdle
    /\ BlockIdle
    /\ ObjIdle
    /\ FunIdle
    /\ LockIdle

\* Time passes and the two interval timers come due; the emitter took the
\* item of stream::once when it was spawned.
EmitterClock ==
    /\ epc # "start"
    /\ now + TimeStep <= MaxTime
    /\ now' = now + TimeStep
    /\ edue' = edue + TicksBetween(now, now + TimeStep, KEEPALIVE_INTERVAL)
    /\ pdue' = pdue + TicksBetween(now, now + TimeStep, PEER_PRUNE_INTERVAL)
    /\ UNCHANGED <<peers, inactive_peers, network, pending, ret, recv_alive,
                   epc, esnap, eout, efired, eticks, emitFrame>>

\* Lines 60-66: the outer stream yields an item, stream::once at the start
\* and an interval tick afterwards, and the closure clones the peers map.
EmitterFire ==
    /\ efired < MaxFirings
    /\ \/ /\ epc = "start"
          /\ UNCHANGED <<eticks, edue>>
       \/ /\ epc = "wait"
          /\ edue > 0
          /\ edue' = edue - 1
          /\ eticks' = eticks + 1
    /\ esnap' = peers
    /\ eout' = <<>>
    /\ efired' = efired + 1
    /\ epc' = "sending"
    /\ UNCHANGED <<nodeVars, pdue, emitFrame>>

\* Lines 68-74: the inner stream yields the item of the next cloned peer;
\* random_peers(8) reads the map as it is then and panics when it is empty.
EmitterSend ==
    /\ epc = "sending"
    /\ Len(eout) < Len(esnap)
    /\ IF RandomPeersPanics(peers, KEEPALIVE_SAMPLE)
       THEN /\ epc' = "dead"
            /\ UNCHANGED eout
       ELSE /\ \E draws \in Draws(KEEPALIVE_SAMPLE, Len(peers)) :
                 eout' = Append(eout,
                           [msg |-> KeepAliveOf(RandomPeersOp(peers, draws)),
                            dest |-> V6(esnap[Len(eout) + 1].addr)])
            /\ UNCHANGED epc
    /\ UNCHANGED <<nodeVars, esnap, efired, eticks, edue, pdue, emitFrame>>

\* Line 76: the inner stream is exhausted and flatten goes back to the
\* outer stream.
EmitterEndFiring ==
    /\ epc = "sending"
    /\ Len(eout) = Len(esnap)
    /\ epc' = "wait"
    /\ UNCHANGED <<nodeVars, esnap, eout, efired, eticks, edue, pdue,
                   emitFrame>>

\* Lines 79-87: the prune task takes a tick of its interval.
PruneTimerFire ==
    LET r == PrunePeersOp(peers, inactive_peers, now)
    IN  /\ pdue > 0
        /\ pdue' = pdue - 1
        /\ peers' = r.peers
        /\ inactive_peers' = r.inactive
        /\ UNCHANGED <<now, network, pending, ret, recv_alive, epc, esnap,
                       eout, efired, eticks, edue, emitFrame>>

\* mod.rs line 43: the receive task records the sender of a message.
ReceiveAdd(peer) ==
    LET r == AddLocked(peers, inactive_peers, peer, now)
    IN  /\ peers' = r.peers
        /\ inactive_peers' = r.inactive
        /\ UNCHANGED <<now, network, pending, ret, recv_alive, emitVars,
                       emitFrame>>

EmitNext ==
    \/ EmitterClock
    \/ EmitterFire
    \/ EmitterSend
    \/ EmitterEndFiring
    \/ PruneTimerFire
    \/ \E peer \in EmitAddrs : ReceiveAdd(peer)

SpecEmitter == EmitInit /\ [][EmitNext]_vars

\* The runtime polls the prune task when a tick of its interval is due.
EmitFairness == WF_vars(PruneTimerFire)

SpecEmitterFair == EmitInit /\ [][EmitNext]_vars /\ EmitFairness

\* The destinations of the items of the emitter's last firing.
C12_Dests == [i \in 1..Len(eout) |-> eout[i].dest]

\* C12: the keepalive emitter fires once at start and then once per
\* KEEPALIVE_INTERVAL tick, and each firing emits exactly one KeepAlive to
\* every address that was in the active map when it fired, and to no other
\* address.
C12_EmitterCoversActive ==
    /\ epc # "start" => efired = eticks + 1
    /\ epc \in {"wait", "dead"} =>
          /\ C12_Dests = [i \in 1..Len(esnap) |-> V6(esnap[i].addr)]
          /\ \A i \in 1..Len(eout) : eout[i].msg.header.kind = "KeepAlive"

(***************************************************************************)
(* LogErrors (src/src/utils.rs, 11-45).                                    *)
(***************************************************************************)
\* What a poll of the inner stream returns: Ok(Async::Ready(Some(item))),
\* Ok(Async::NotReady) or Err(e) with the kind of e; an exhausted stream
\* returns Ok(Async::Ready(None)).
PollItem(v) == [tag |-> "Ready", item |-> v]
PollNotReady == [tag |-> "NotReady"]
PollErr(kind) == [tag |-> "Err", kind |-> kind]
PollEnd == [tag |-> "End"]

InnerPoll(inner) ==
    IF inner = <<>> THEN [res |-> PollEnd, rest |-> <<>>]
    ELSE [res |-> Head(inner), rest |-> Tail(inner)]

\* LogErrors::poll with the errors of every kind propagated.
LogErrorsPollStrict(inner) == InnerPoll(inner)

\* LogErrors::poll: the loop polls the inner stream until it returns Ok or
\* a FatalStreamError.
RECURSIVE LogErrorsPoll(_)
LogErrorsPoll(inner) ==
    LET p == InnerPoll(inner)
    IN  IF p.res.tag = "Err" /\ p.res.kind # "FatalStreamError"
        THEN LogErrorsPoll(p.rest)
        ELSE p

\* The poll results of the model.
PollResults ==
    {PollItem(1), PollItem(2), PollNotReady, PollErr("FatalStreamError"),
     PollErr("IoError")}

RECURSIVE SeqsUpTo(_, _)
SeqsUpTo(S, n) ==
    IF n = 0 THEN {<<>>}
    ELSE LET shorter == SeqsUpTo(S, n - 1)
         IN  shorter \cup {Append(q, x) : q \in shorter, x \in S}

LogInit ==
    /\ NodeIdle
    /\ CodecIdle
    /\ PowIdle
    /\ EmitIdle
    /\ TaskIdle
    /\ BlockIdle
    /\ ObjIdle
    /\ FunIdle
    /\ LockIdle
    /\ lsrc \in SeqsUpTo(PollResults, MaxStream)
    /\ linner = lsrc
    /\ lyield = <<>>
    /\ lstate = "open"

\* The consumer polls the adapter once.
LogPoll ==
    LET p == LogErrorsPoll(linner)
    IN  /\ lstate = "open"
        /\ linner' = p.rest
        /\ lyield' = IF p.res.tag = "Ready" THEN Append(lyield, p.res.item)
                     ELSE lyield
        /\ lstate' = CASE p.res.tag = "Err" -> "failed"
                       [] p.res.tag = "End" -> "ended"
                       [] OTHER -> "open"
        /\ UNCHANGED <<lsrc, logFrame>>

LogNext == LogPoll

SpecLog == LogInit /\ [][LogNext]_vars

\* The part of the inner stream before its first FatalStreamError.
RECURSIVE C13_BeforeFatal(_)
C13_BeforeFatal(q) ==
    IF q = <<>> \/ Head(q) = [tag |-> "Err", kind |-> "FatalStreamError"]
    THEN <<>>
    ELSE <<Head(q)>> \o C13_BeforeFatal(Tail(q))

\* The items of the Ok(Ready(Some(_))) results of a stream, in order.
RECURSIVE C13_Items(_)
C13_Items(q) ==
    IF q = <<>> THEN <<>>
    ELSE (IF Head(q).tag = "Ready" THEN <<Head(q).item>> ELSE <<>>)
         \o C13_Items(Tail(q))

C13_HasFatal(q) ==
    \E i \in 1..Len(q) : q[i] = [tag |-> "Err", kind |-> "FatalStreamError"]

\* C13: LogErrors yields exactly the Ok items of the inner stream in their
\* order, skips every error that is not a FatalStreamError and goes on
\* polling, and propagates the first FatalStreamError as its own error.
C13_LogErrorsSkipsNonFatal ==
    /\ lstate = "open" =>
          /\ lyield = C13_Items(SubSeq(lsrc, 1, Len(lsrc) - Len(linner)))
          /\ ~C13_HasFatal(SubSeq(lsrc, 1, Len(lsrc) - Len(linner)))
    /\ lstate = "failed" =>
          /\ C13_HasFatal(lsrc)
          /\ lyield = C13_Items(C13_BeforeFatal(lsrc))
    /\ lstate = "ended" =>
          /\ ~C13_HasFatal(lsrc)
          /\ lyield = C13_Items(lsrc)

\* The adapter has skipped an error, yielded an item after it and then
\* propagated a FatalStreamError.
C13_Witness ==
    /\ lstate = "failed"
    /\ Len(lyield) > 0
    /\ \E i \in 1..Len(lsrc) : \E j \in (i + 1)..Len(lsrc) :
          /\ lsrc[i] = [tag |-> "Err", kind |-> "IoError"]
          /\ lsrc[j].tag = "Ready"
          /\ j < Len(lsrc) - Len(linner)

\* ------------------------------------------------------------------
\* The tasks spawned by run (node/mod.rs) and the outbound channel
\* ------------------------------------------------------------------

\* The two tasks that hold a clone of the channel's sender, and the three
\* tasks of the node proper.
Producers == {"receive", "keepalive"}
NodeTasks == {"receive", "keepalive", "prune"}
Tasks == NodeTasks \cup {"sink"}

\* The i-th item the stream of producer p yields.
ItemOf(p, i) == [from |-> p, seq |-> i]

\* The receiving half is alive as long as the task that owns it runs.
ChanOpen == tstate["sink"] = "running"

\* start_send that loses the item of a parked sender instead of handing it
\* back.
StartSendDrops(p, item) ==
    IF ~ChanOpen
    THEN [err |-> TRUE, chan |-> chan, parked |-> parked, held |-> None]
    ELSE IF \E i \in 1..Len(parked) : parked[i] = p
    THEN [err |-> FALSE, chan |-> chan, parked |-> parked, held |-> None]
    ELSE [err |-> FALSE,
          chan |-> Append(chan, item),
          parked |-> IF Len(chan) + 1 > ChanBuffer
                     THEN Append(parked, p) ELSE parked,
          held |-> None]

\* Sender::start_send as send_all uses it: an error once the receiver is
\* gone; the item handed back (send_all keeps it) while the sender is
\* parked; otherwise the item is queued, and the sender parks when the
\* queue is then over the buffer.
StartSend(p, item) ==
    IF ~ChanOpen
    THEN [err |-> TRUE, chan |-> chan, parked |-> parked, held |-> None]
    ELSE IF \E i \in 1..Len(parked) : parked[i] = p
    THEN [err |-> FALSE, chan |-> chan, parked |-> parked, held |-> Some(item)]
    ELSE [err |-> FALSE,
          chan |-> Append(chan, item),
          parked |-> IF Len(chan) + 1 > ChanBuffer
                     THEN Append(parked, p) ELSE parked,
          held |-> None]

\* What a producer task does with the outcome of start_send.
ProducerSends(p, r) ==
    /\ tstate' = IF r.err THEN [tstate EXCEPT ![p] = "ended"] ELSE tstate
    /\ tend' = IF r.err THEN [tend EXCEPT ![p] = "SendError"] ELSE tend
    /\ held' = [held EXCEPT ![p] = r.held]
    /\ chan' = r.chan
    /\ parked' = r.parked

\* lazy(|| { spawn x 4 }): all four tasks run, nothing is queued.
TasksInit ==
    /\ NodeIdle
    /\ CodecIdle
    /\ PowIdle
    /\ EmitIdle
    /\ LogIdle
    /\ BlockIdle
    /\ ObjIdle
    /\ FunIdle
    /\ LockIdle
    /\ tstate = [t \in Tasks |-> "running"]
    /\ tend = [t \in Tasks |-> "none"]
    /\ produced = [p \in Producers |-> 0]
    /\ held = [p \in Producers |-> None]
    /\ skips = [p \in Producers |-> 0]
    /\ chan = <<>>
    /\ parked = <<>>
    /\ delivered = <<>>
    /\ pticks = 0
    /\ polls = 0

\* send_all polls its stream only when it holds no item; the stream yields
\* the next message and send_all starts sending it.
ProducerYield(p) ==
    /\ tstate[p] = "running"
    /\ held[p] = None
    /\ produced[p] < MaxItems
    /\ produced' = [produced EXCEPT ![p] = @ + 1]
    /\ ProducerSends(p, StartSend(p, ItemOf(p, produced[p] + 1)))
    /\ UNCHANGED <<skips, delivered, pticks, polls, taskFrame>>

\* The task is woken (by the receiver taking a message, or by its drop) and
\* send_all retries the item it holds.
ProducerRetry(p) ==
    /\ tstate[p] = "running"
    /\ held[p] # None
    /\ ~ChanOpen \/ \A i \in 1..Len(parked) : parked[i] # p
    /\ ProducerSends(p, StartSend(p, Unwrap(held[p])))
    /\ UNCHANGED <<produced, skips, delivered, pticks, polls, taskFrame>>

\* The stream under log_errors yields an error that is not a
\* FatalStreamError (an io error of the socket, a timer error of the
\* interval): LogErrors logs it and polls again.
ProducerError(p) ==
    /\ tstate[p] = "running"
    /\ held[p] = None
    /\ skips[p] < MaxSkips
    /\ skips' = [skips EXCEPT ![p] = @ + 1]
    /\ UNCHANGED <<tstate, tend, produced, held, chan, parked, delivered,
                   pticks, polls, taskFrame>>

\* The stream is polled and has no message for the channel: a datagram
\* the handlers answer with nothing, a firing with no peer to greet.
ProducerIdlePoll(p) ==
    /\ tstate[p] = "running"
    /\ held[p] = None
    /\ polls' = 1 - polls
    /\ UNCHANGED <<tstate, tend, produced, held, skips, chan, parked,
                   delivered, pticks, taskFrame>>

\* interval.for_each: a tick runs the prune closure.
PruneTaskTick ==
    /\ tstate["prune"] = "running"
    /\ pticks' = 1 - pticks
    /\ UNCHANGED <<tstate, tend, produced, held, skips, chan, parked,
                   delivered, polls, taskFrame>>

\* interval.for_each: an error of the interval resolves the for_each
\* future; map_err logs it and the task is over.
PruneTimerError ==
    /\ tstate["prune"] = "running"
    /\ tstate' = [tstate EXCEPT !["prune"] = "ended"]
    /\ tend' = [tend EXCEPT !["prune"] = "TokioTimerError"]
    /\ UNCHANGED <<produced, held, skips, chan, parked, delivered, pticks,
                   polls, taskFrame>>

\* sink.send_all(sock_recv): the receiver takes the oldest message, which
\* unparks the sender parked longest, and the UDP sink accepts it.
SinkTake ==
    /\ tstate["sink"] = "running"
    /\ chan # <<>>
    /\ delivered' = Append(delivered, Head(chan))
    /\ chan' = Tail(chan)
    /\ parked' = IF parked = <<>> THEN parked ELSE Tail(parked)
    /\ UNCHANGED <<tstate, tend, produced, held, skips, pticks, polls,
                   taskFrame>>

\* The UDP sink fails: send_all resolves with the error, the task is over
\* and the receiver is dropped with whatever is still queued.
SinkError ==
    /\ tstate["sink"] = "running"
    /\ tstate' = [tstate EXCEPT !["sink"] = "ended"]
    /\ tend' = [tend EXCEPT !["sink"] = "IoError"]
    /\ chan' = <<>>
    /\ parked' = <<>>
    /\ UNCHANGED <<produced, held, skips, delivered, pticks, polls, taskFrame>>

TasksNext ==
    \/ \E p \in Producers : ProducerYield(p)
    \/ \E p \in Producers : ProducerRetry(p)
    \/ \E p \in Producers : ProducerError(p)
    \/ \E p \in Producers : ProducerIdlePoll(p)
    \/ PruneTaskTick
    \/ PruneTimerError
    \/ SinkTake
    \/ SinkError

SpecTasks == TasksInit /\ [][TasksNext]_vars

\* C14: none of the three node tasks (receive/process, keepalive emitter,
\* peer prune) is ended by an error that is not a FatalStreamError, a timer
\* error included.
C14_NoTaskEndsOnNonFatal ==
    \A t \in NodeTasks :
        tstate[t] = "ended" => tend[t] \notin {"TokioTimerError", "IoError"}

\* Fair scheduling of the runtime: a task that can make progress is polled,
\* the streams of the producers keep being polled and the prune interval
\* keeps ticking. Whether a poll yields a message, and the errors of the
\* streams and of the UDP sink, are up to the environment.
TasksFairness ==
    /\ \A p \in Producers : WF_vars(ProducerRetry(p))
    /\ \A p \in Producers : WF_vars(ProducerIdlePoll(p))
    /\ WF_vars(PruneTaskTick)
    /\ WF_vars(SinkTake)

SpecTasksFair == TasksInit /\ [][TasksNext]_vars /\ TasksFairness

\* C15: once the task that drains the outbound channel into the UDP sink
\* has ended, every node task eventually terminates.
C15_SinkEndStopsNode ==
    (tstate["sink"] = "ended") ~> (\A t \in NodeTasks : tstate[t] = "ended")

\* The items of producer p in a sequence of items, in order.
C16_From(q, p) == SelectSeq(q, LAMBDA m : m.from = p)

\* C16: while the sink task runs, the items a producer has enqueued are, in
\* its enqueue order and each exactly once, the ones already handed to the
\* UDP sink, then the ones queued in the channel, then the one the
\* suspended producer holds back because the channel was full.
C16_PerProducerFifo ==
    ChanOpen =>
        \A p \in Producers :
            C16_From(delivered, p) \o C16_From(chan, p) \o held[p]
                = [i \in 1..produced[p] |-> ItemOf(p, i)]

\* A producer was suspended on the full channel, and its later items came
\* through to the sink behind its earlier ones while the other producer's
\* items went through as well.
C16_Witness ==
    /\ ChanOpen
    /\ \E p \in Producers :
          /\ Len(C16_From(delivered, p)) >= 2
          /\ held[p] # None
          /\ Len(chan) > ChanBuffer
    /\ \A p \in Producers : C16_From(delivered, p) # <<>>

\* ------------------------------------------------------------------
\* Block::deserialize_bytes (nano-lib-rs/src/block.rs)
\* ------------------------------------------------------------------

\* The buffers: every prefix of a run of distinct bytes.
BlockWire == [i \in 1..MaxBlockLen |-> i % 256]

BlockInit ==
    /\ NodeIdle
    /\ CodecIdle
    /\ PowIdle
    /\ EmitIdle
    /\ LogIdle
    /\ TaskIdle
    /\ ObjIdle
    /\ FunIdle
    /\ LockIdle
    /\ bkind \in DOMAIN BlockKindValue
    /\ \E n \in 0..MaxBlockLen : bbytes = SubSeq(BlockWire, 1, n)
    /\ bres = None
    /\ pres = None

\* The call Block::deserialize_bytes(bytes, kind).
BlockDeserializeStep ==
    /\ bres = None
    /\ bres' = Some(DeserializeBlock(bbytes, bkind))
    /\ UNCHANGED <<bkind, bbytes, pres, blockFrame>>

\* The call BlockPayload::deserialize_bytes(buf, kind) on a Buf over the
\* bytes, then BlockPayload::serialize_bytes of the payload it returned
\* into an empty buffer.
PayloadDeserializeStep ==
    /\ pres = None
    /\ LET r == DeserializePayload(bbytes, bkind)
       IN  pres' = Some(
             IF r.tag = "Ok"
             THEN [tag |-> "Ok", payload |-> r.payload,
                   consumed |-> Len(bbytes) - Len(r.rest),
                   written |-> SerializePayload(r.payload)]
             ELSE r)
    /\ UNCHANGED <<bkind, bbytes, bres, blockFrame>>

BlockNext ==
    \/ BlockDeserializeStep
    \/ PayloadDeserializeStep

SpecBlock == BlockInit /\ [][BlockNext]_vars

\* C20: Block::deserialize_bytes(bytes, kind) returns an error for the
\* kinds Invalid and NotABlock; for each of the five data kinds it returns
\* NoSignature when len < payload_size + 64, NoWork when payload_size + 64
\* <= len < payload_size + 72, and otherwise a block with signature and
\* work set; it never panics, that is, never reads past the buffer.
C20_BlockDeserializeCases ==
    IsSome(bres) =>
        LET r == Unwrap(bres)
            len == Len(bbytes)
            ps == PayloadSize(bkind)
        IN  /\ r.tag # "Panic"
            /\ bkind \in {"Invalid", "NotABlock"} => r.tag = "Err"
            /\ bkind \notin {"Invalid", "NotABlock"} =>
                  /\ len < ps + 64 => r = BlockErr("NoSignature")
                  /\ (ps + 64 <= len /\ len < ps + 72) =>
                        r = BlockErr("NoWork")
                  /\ len >= ps + 72 =>
                        /\ r.tag = "Ok"
                        /\ r.block.payload.kind = bkind
                        /\ r.block.signature =
                              Some(SubSeq(bbytes, ps + 1, ps + 64))
                        /\ IsSome(r.block.work)

\* C21: for each of the five data kinds, the number of bytes
\* BlockPayload::deserialize_bytes consumes and the number of bytes
\* BlockPayload::serialize_bytes writes equal payload_size(kind): 80, 64,
\* 96, 32 and 144 for Send, Receive, Open, Change and State.
C21_PayloadLengths ==
    (IsSome(pres) /\ Unwrap(pres).tag = "Ok") =>
        /\ Unwrap(pres).consumed = PayloadSize(bkind)
        /\ Len(Unwrap(pres).written) = PayloadSize(bkind)
        /\ PayloadSize(bkind) =
              CASE bkind = "Send" -> 80
                [] bkind = "Receive" -> 64
                [] bkind = "Open" -> 96
                [] bkind = "Change" -> 32
                [] bkind = "State" -> 144

\* ------------------------------------------------------------------
\* The methods of Block (nano-lib-rs/src/block.rs)
\* ------------------------------------------------------------------

\* The Work values the methods are called with: for each root some are
\* valid and some are not.
ObjWorks ==
    {Fill(8, 0), <<0, 0, 0, 0, 0, 0, 0, 1>>, <<0, 0, 0, 0, 0, 0, 0, 2>>,
     <<0, 0, 0, 0, 0, 0, 1, 1>>}

\* Block::new on each payload, unsigned and without work.
ObjInit ==
    /\ NodeIdle
    /\ CodecIdle
    /\ PowIdle
    /\ EmitIdle
    /\ LogIdle
    /\ TaskIdle
    /\ BlockIdle
    /\ FunIdle
    /\ LockIdle
    /\ \E p \in BlockPayloads : ob = Some(NewBlock(p, None, None))
    /\ oret = None

\* block.hash(force)
ObjHash(force) ==
    /\ LET r == BlockHashOp(Unwrap(ob), force)
       IN  /\ ob' = Some(r.block)
           /\ oret' = Some([op |-> "hash", force |-> force, ok |-> r.ok,
                            value |-> r.value, computed |-> r.computed])
    /\ UNCHANGED objFrame

\* block.calculate_hash()
ObjCalculateHash ==
    /\ LET r == CalculateHash(Unwrap(ob))
       IN  /\ ob' = Some(r.block)
           /\ oret' = Some([op |-> "calculate_hash", force |-> TRUE,
                            ok |-> r.ok, value |-> r.value,
                            computed |-> r.computed])
    /\ UNCHANGED objFrame

\* block.set_work(w)
ObjSetWork(w) ==
    /\ LET r == SetWork(Unwrap(ob), w)
       IN  /\ ob' = Some(r.block)
           /\ oret' = Some([op |-> "set_work", work |-> w, ok |-> r.ok,
                            err |-> r.err])
    /\ UNCHANGED objFrame

\* block.generate_work(): nanopow_rs::generate_work(root, None) returns a
\* nonce that checks against the root.
ObjGenerateWork ==
    /\ \E w \in ObjWorks :
          /\ check_work(Root(Unwrap(ob).payload), w)
          /\ LET r == GenerateWork(Unwrap(ob), Some(w))
             IN  /\ ob' = Some(r.block)
                 /\ oret' = Some([op |-> "generate_work", ok |-> TRUE,
                                  value |-> r.value])
    /\ UNCHANGED objFrame

ObjNext ==
    \/ \E force \in BOOLEAN : ObjHash(force)
    \/ ObjCalculateHash
    \/ \E w \in ObjWorks : ObjSetWork(w)
    \/ ObjGenerateWork

SpecObj == ObjInit /\ [][ObjNext]_vars

\* The digest recomputed from the payload of the block.
C22_Digest(b) == BlockDigest(PayloadHashInput(b.payload))

\* C22: after any sequence of hash(false), hash(true), calculate_hash,
\* set_work and generate_work calls on a block whose payload is not
\* modified, the cached hash is absent or equal to the digest recomputed
\* from the payload; hash(false) returns the cached value when there is
\* one, without recomputing; hash(true) and calculate_hash recompute; every
\* call returns that same digest.
C22_HashCacheCoherent ==
    [][/\ Unwrap(ob').payload = Unwrap(ob).payload
       /\ Unwrap(ob').hash \in {None, Some(C22_Digest(Unwrap(ob)))}
       /\ IsSome(Unwrap(ob).hash) => Unwrap(ob').hash = Unwrap(ob).hash
       /\ Unwrap(oret').op \in {"hash", "calculate_hash"} =>
             /\ Unwrap(oret').ok
             /\ Unwrap(oret').value = Some(C22_Digest(Unwrap(ob)))
             /\ Unwrap(ob').hash = Unwrap(oret').value
             /\ Unwrap(oret').computed =
                   (Unwrap(oret').force \/ ~IsSome(Unwrap(ob).hash))]_vars

\* hash(false) has answered from the cache of a block that has work.
C22_Witness ==
    /\ IsSome(oret)
    /\ Unwrap(oret).op = "hash"
    /\ ~Unwrap(oret).computed
    /\ IsSome(Unwrap(ob).work)
    /\ Unwrap(ob).hash = Some(C22_Digest(Unwrap(ob)))

\* C23: Block::set_work(w) fails with InvalidWork if and only if
\* check_work(root of the payload, w) is false; when it fails the work
\* field is unchanged, when it succeeds it is Some(w).
C23_SetWorkRejectsInvalid ==
    [][\A w \in ObjWorks : ObjSetWork(w) =>
          /\ Unwrap(oret').ok = check_work(Root(Unwrap(ob).payload), w)
          /\ ~Unwrap(oret').ok =>
                /\ Unwrap(oret').err = "InvalidWorkError"
                /\ Unwrap(ob').work = Unwrap(ob).work
          /\ Unwrap(oret').ok => Unwrap(ob').work = Some(w)]_vars

\* ------------------------------------------------------------------
\* check_result_threshold on its own (nanopow-rs/src/lib.rs)
\* ------------------------------------------------------------------

\* The digests: every combination of edge values in the four most
\* significant bytes (the last four), and one varying low byte.
ThresholdDigests ==
    {<<b1, 0, 0, b4, b5, b6, b7, b8>> :
        b1 \in {0, 255}, b4 \in {0, 255}, b5 \in {0, 191, 192, 193, 255},
        b6 \in {0, 254, 255}, b7 \in {254, 255}, b8 \in {0, 254, 255}}

ThresholdInit ==
    /\ NodeIdle
    /\ CodecIdle
    /\ PowIdle
    /\ EmitIdle
    /\ LogIdle
    /\ TaskIdle
    /\ BlockIdle
    /\ ObjIdle
    /\ LockIdle
    /\ fop = "check_result_threshold"
    /\ fin \in ThresholdDigests
    /\ fout = None

\* The call check_result_threshold(&output).
ThresholdStep ==
    /\ fop = "check_result_threshold"
    /\ fout = None
    /\ fout' = Some(check_result_threshold(fin))
    /\ UNCHANGED <<fop, fin, funFrame>>

ThresholdNext == ThresholdStep

SpecThreshold == ThresholdInit /\ [][ThresholdNext]_vars

RECURSIVE C26_GeqBE(_, _)
\* a >= b for two unsigned numbers given as big-endian bytes of one length.
C26_GeqBE(a, b) ==
    IF a = <<>> THEN TRUE
    ELSE IF Head(a) # Head(b) THEN Head(a) > Head(b)
    ELSE C26_GeqBE(Tail(a), Tail(b))

\* C26: check_result_threshold(D) is true exactly when the digest D, read
\* as a little-endian u64, is greater than or equal to 0xFFFFFFC000000000.
C26_ThresholdIsNumeric ==
    IsSome(fout) /\ fop = "check_result_threshold" =>
        (Unwrap(fout) <=>
            C26_GeqBE(Reverse(fin), <<255, 255, 255, 192, 0, 0, 0, 0>>))

\* A digest above the threshold whose low bytes are below 0xff has been
\* accepted.
C26_Witness ==
    /\ fop = "check_result_threshold"
    /\ fout = Some(TRUE)
    /\ fin[5] = 193
    /\ fin[1] = 0

\* ------------------------------------------------------------------
\* check_addr on its own (src/utils.rs)
\* ------------------------------------------------------------------

\* IPv4 addresses at and next to both ends of every row of
\* IPV4_RESERVED_ADDRESSES, and 8.8.8.8.
CheckAddrV4 ==
    { <<0, 0, 0, 0>>, <<0, 0, 0, 1>>, <<0, 255, 255, 255>>, <<1, 0, 0, 0>>,
      <<126, 255, 255, 255>>, <<127, 0, 0, 0>>, <<127, 0, 0, 1>>,
      <<127, 255, 255, 255>>, <<128, 0, 0, 0>>,
      <<192, 0, 1, 255>>, <<192, 0, 2, 0>>, <<192, 0, 2, 255>>,
      <<192, 0, 3, 0>>,
      <<198, 51, 99, 255>>, <<198, 51, 100, 0>>, <<198, 51, 100, 255>>,
      <<198, 51, 101, 0>>,
      <<203, 0, 112, 255>>, <<203, 0, 113, 0>>, <<203, 0, 113, 255>>,
      <<203, 0, 114, 0>>,
      <<223, 255, 255, 255>>, <<224, 0, 0, 0>>, <<239, 255, 255, 255>>,
      <<240, 0, 0, 0>>, <<255, 255, 255, 255>>, <<8, 8, 8, 8>> }

\* ::, ::1, ff02::1, 2001:db8::1, 2000::, 3fff:ffff:...:ffff, the IPv4-mapped
\* addresses of CheckAddrV4 and the IPv4-compatible ::8.8.8.8.
CheckAddrIps ==
    { Fill(16, 0), Fill(15, 0) \o <<1>>, <<255, 2>> \o Fill(13, 0) \o <<1>>,
      IpGlobal6, <<32>> \o Fill(15, 0), <<63>> \o Fill(15, 255),
      Fill(12, 0) \o <<8, 8, 8, 8>> }
    \cup {ToIpv6Mapped(o) : o \in CheckAddrV4}

CheckAddrPorts == {0, 1, 7075, 65535}

CheckAddrInit ==
    /\ NodeIdle
    /\ CodecIdle
    /\ PowIdle
    /\ EmitIdle
    /\ LogIdle
    /\ TaskIdle
    /\ BlockIdle
    /\ ObjIdle
    /\ LockIdle
    /\ fop = "check_addr"
    /\ \E ip \in CheckAddrIps, port \in CheckAddrPorts :
           fin = SocketAddrV6(ip, port, 0, 0)
    /\ fout = None

\* The call check_addr(addr).
CheckAddrStep ==
    /\ fop = "check_addr"
    /\ fout = None
    /\ fout' = Some(check_addr(fin))
    /\ UNCHANGED <<fop, fin, funFrame>>

CheckAddrNext == CheckAddrStep

SpecCheckAddr == CheckAddrInit /\ [][CheckAddrNext]_vars

\* o lies in 0.0.0.0/8, 127.0.0.0/8, 192.0.2.0/24, 198.51.100.0/24,
\* 203.0.113.0/24, 224.0.0.0/4 or 240.0.0.0/4.
C27_Reserved4(o) ==
    \/ o[1] \in {0, 127}
    \/ <<o[1], o[2], o[3]>> \in {<<192, 0, 2>>, <<198, 51, 100>>,
                                  <<203, 0, 113>>}
    \/ o[1] \div 16 \in {14, 15}

\* ip is ::ffff:a.b.c.d
C27_Mapped(ip) ==
    /\ \A i \in 1..10 : ip[i] = 0
    /\ ip[11] = 255
    /\ ip[12] = 255

\* C27: check_addr is false for the unspecified address, port 0, loopback,
\* multicast and the IPv4-mapped addresses of the seven reserved ranges; it
\* is true for an address of 2000::/3 and for an IPv4-mapped address outside
\* the ranges, with a non-zero port.
C27_CheckAddrCases ==
    fop = "check_addr" /\ IsSome(fout) =>
        /\ (\/ fin.ip = Fill(16, 0)
            \/ fin.port = 0
            \/ fin.ip = Fill(15, 0) \o <<1>>
            \/ fin.ip[1] = 255
            \/ C27_Mapped(fin.ip) /\ C27_Reserved4(SubSeq(fin.ip, 13, 16)))
           => fout = Some(FALSE)
        /\ (/\ fin.port # 0
            /\ \/ fin.ip[1] \div 32 = 1
               \/ /\ C27_Mapped(fin.ip)
                  /\ ~C27_Reserved4(SubSeq(fin.ip, 13, 16)))
           => fout = Some(TRUE)

\* ::ffff:203.0.113.255 with port 7075 has been rejected.
C27_Witness ==
    /\ fop = "check_addr"
    /\ fout = Some(FALSE)
    /\ fin = SocketAddrV6(ToIpv6Mapped(<<203, 0, 113, 255>>), 7075, 0, 0)

\* ------------------------------------------------------------------
\* generate_work without a budget (nanopow-rs/src/lib.rs)
\* ------------------------------------------------------------------

\* C28: with max_iters None no worker counts an iteration or sends None,
\* the result the coordinator holds is a nonce, and generate_work does not
\* return None.
C28_UnlimitedNeverNone ==
    ~IsSome(max_iters) =>
        /\ \A w \in Workers : witers[w] = 0
        /\ \A i \in 1..Len(tx) : IsSome(tx[i])
        /\ cpc # "recv" => IsSome(cres)
        /\ cpc = "returned" => IsSome(work_out)

\* generate_work(hash, None) has returned a Work after one worker found a
\* nonce and another left its loop on the cancel sentinel.
C28_Witness ==
    /\ ~IsSome(max_iters)
    /\ cpc = "returned"
    /\ IsSome(work_out)
    /\ \E w \in Workers : wdone[w] /\ ~wvalid[w]

\* ------------------------------------------------------------------
\* Non-forced add_or_update_peer against prune_peers (src/node/state.rs)
\* ------------------------------------------------------------------

\* C29: the write-locked part of a non-forced add_or_update_peer, run after
\* its test of inactive_peers, takes no peer out of inactive_peers: a peer
\* that prune_peers moved there is not moved back nor refreshed by the call.
C29_NonForcedAtomicWithPrune ==
    [][\A p \in pending :
         (pending' = pending \ {p} /\ ret'.op = "add_or_update_peer") =>
            /\ Keys(inactive_peers) \subseteq Keys(inactive_peers')
            /\ p.peer \notin Keys(inactive_peers)]_vars

\* ------------------------------------------------------------------
\* Forced add_or_update_peer against prune_peers (src/node/state.rs)
\* ------------------------------------------------------------------

\* C30: add_or_update_peer(peer, true) on a peer of inactive_peers or of
\* peers leaves it in peers only, with last_seen equal to the time of the
\* call; and prune_peers keeps in peers every entry whose last_seen is at
\* most KEEPALIVE_CUTOFF old.
C30_ForcedAddSurvivesPrune ==
    /\ [][\A peer \in Addrs :
            (AddForced(peer)
             /\ peer \in Keys(inactive_peers) \cup Keys(peers)) =>
               /\ peer \in Keys(peers')
               /\ peer \notin Keys(inactive_peers')
               /\ MapGet(peers', peer).last_seen = now]_vars
    /\ [][PrunePeers =>
            \A a \in Keys(peers) :
               now - MapGet(peers, a).last_seen <= KEEPALIVE_CUTOFF =>
                  /\ a \in Keys(peers')
                  /\ a \notin Keys(inactive_peers')
                  /\ MapGet(peers', a) = MapGet(peers, a)]_vars

\* prune_peers has just run KEEPALIVE_CUTOFF after a peer was refreshed,
\* and the peer is still in peers while another peer was pruned.
C30_Witness ==
    /\ ret.op = "prune_peers"
    /\ ret.count > 0
    /\ \E a \in Keys(peers) :
          /\ MapGet(peers, a).last_seen > 0
          /\ now - MapGet(peers, a).last_seen = KEEPALIVE_CUTOFF

\* ------------------------------------------------------------------
\* The prune task moves silent peers (src/node/mod.rs, 79-87)
\* ------------------------------------------------------------------

\* The entries of peers last seen more than KEEPALIVE_CUTOFF ago.
C31_Stale == {a \in Keys(peers) : Expired(MapGet(peers, a), now)}

\* C31: while the prune task runs, a peer of peers whose last_seen is more
\* than KEEPALIVE_CUTOFF old has a prune tick due; the tick that fires then
\* moves every such peer to inactive_peers; and so each such peer leaves
\* peers unless a datagram refreshes it first.
C31_SilentPeerPruned ==
    /\ [](C31_Stale # {} => pdue > 0)
    /\ [][pdue' = pdue - 1 =>
             /\ C31_Stale \cap Keys(peers') = {}
             /\ C31_Stale \subseteq Keys(inactive_peers')]_vars
    /\ \A a \in EmitAddrs :
          (a \in C31_Stale) ~> (a \notin C31_Stale)

\* A prune tick has moved a peer that was silent for more than
\* KEEPALIVE_CUTOFF while another peer, heard since, stays in peers.
C31_Witness ==
    /\ \E a \in Keys(inactive_peers) :
          Expired(MapGet(inactive_peers, a), now)
    /\ \E a \in Keys(peers) : MapGet(peers, a).last_seen > 0
    /\ C31_Stale = {}

\* ------------------------------------------------------------------
\* The iteration budget of generate_work (nanopow-rs/src/lib.rs)
\* ------------------------------------------------------------------

RECURSIVE C32_Total(_)
\* The candidates evaluated by the workers of the set ws.
C32_Total(ws) ==
    IF ws = {} THEN 0
    ELSE LET w == CHOOSE x \in ws : TRUE
         IN  witers[w] + C32_Total(ws \ {w})

\* C32: with max_iters = Some(m) each worker evaluates at most m div N
\* candidates and all workers together at most m; when m < N no candidate
\* is evaluated and generate_work returns None.
C32_BudgetDivided ==
    IsSome(max_iters) =>
        LET m == Unwrap(max_iters)
        IN  /\ \A w \in Workers : witers[w] <= m \div NumCpus
            /\ C32_Total(Workers) <= m
            /\ m < NumCpus =>
                  /\ \A w \in Workers : witers[w] = 0 /\ ~wvalid[w]
                  /\ cpc = "returned" => work_out = None

\* With a budget of 3 every worker has used its share of one candidate,
\* none of them valid, and generate_work has returned None.
C32_Witness ==
    /\ max_iters = Some(3)
    /\ \A w \in Workers : witers[w] = 3 \div NumCpus
    /\ cpc = "returned"
    /\ work_out = None

\* ------------------------------------------------------------------
\* The two RwLocks of State (src/node/state.rs, src/node/mod.rs)
\* ------------------------------------------------------------------

\* The threads of the pool that run the node's tasks.
NumThreads == 2
\* The calls of State's methods made in one run.
MaxCalls == 3

LockThreads == 1..NumThreads
Locks == {"inactive_peers", "peers"}

\* lock.read() / lock.write(), and the drop of the guard; a drop that an
\* early return or a panic can follow carries it in alt.
Acquire(l, m) == [a |-> "acquire", l |-> l, m |-> m, alt |-> "none"]
Release(l, alt) == [a |-> "release", l |-> l, m |-> "none", alt |-> alt]

\* add_or_update_peer, lines 44-71: the read guard of lines 46-49 lives in
\* the block of `if !force`; the write guards of lines 51-52 are dropped at
\* the end of the function, the later one first.
AddOrUpdatePeerLocks(force) ==
    (IF force THEN <<>>
     ELSE <<Acquire("inactive_peers", "read"),
            Release("inactive_peers", "return")>>)
    \o <<Acquire("inactive_peers", "write"), Acquire("peers", "write"),
         Release("peers", "none"), Release("inactive_peers", "none")>>

\* prune_peers taking peers before inactive_peers.
PrunePeersLocksReversed ==
    <<Acquire("peers", "write"), Acquire("inactive_peers", "write"),
      Release("inactive_peers", "none"), Release("peers", "none")>>

\* prune_peers, lines 73-87.
PrunePeersLocks ==
    <<Acquire("inactive_peers", "write"), Acquire("peers", "write"),
      Release("peers", "none"), Release("inactive_peers", "none")>>

\* remove_peer, lines 89-94.
RemovePeerLocks == <<Acquire("peers", "write"), Release("peers", "none")>>

\* peer_count (lines 40-42) and the snapshot of mod.rs line 66.
ReadPeersLocks == <<Acquire("peers", "read"), Release("peers", "none")>>

\* random_peers, lines 96-103: gen_range panics under the read guard when
\* the map is empty and the unwinding drops the guard.
RandomPeersLocks == <<Acquire("peers", "read"), Release("peers", "panic")>>

LockPrograms ==
    [op \in {"add_or_update_peer", "add_or_update_peer_forced",
             "prune_peers", "remove_peer", "random_peers", "peer_count",
             "snapshot"} |->
        CASE op = "add_or_update_peer" -> AddOrUpdatePeerLocks(FALSE)
          [] op = "add_or_update_peer_forced" -> AddOrUpdatePeerLocks(TRUE)
          [] op = "prune_peers" -> PrunePeersLocks
          [] op = "remove_peer" -> RemovePeerLocks
          [] op = "random_peers" -> RandomPeersLocks
          [] OTHER -> ReadPeersLocks]

LockIdleThread == [op |-> "idle", pc |-> 0, res |-> "returned"]

\* The lock operation thread t is at.
LockStepOf(t) == LockPrograms[lthr[t].op][lthr[t].pc]

LockInit ==
    /\ NodeIdle
    /\ CodecIdle
    /\ PowIdle
    /\ EmitIdle
    /\ LogIdle
    /\ TaskIdle
    /\ BlockIdle
    /\ ObjIdle
    /\ FunIdle
    /\ lthr = [t \in LockThreads |-> LockIdleThread]
    /\ lock = [l \in Locks |-> [r |-> {}, w |-> {}]]
    /\ lcalls = 0

\* A thread enters a method of State.
LockCall(t, op) ==
    /\ lthr[t].op = "idle"
    /\ lcalls < MaxCalls
    /\ lcalls' = lcalls + 1
    /\ lthr' = [lthr EXCEPT ![t] = [op |-> op, pc |-> 1, res |-> "returned"]]
    /\ UNCHANGED <<lock, lockFrame>>

\* RwLock::read returns when no writer holds the lock, RwLock::write when
\* nobody holds it.
LockAcquire(t) ==
    /\ lthr[t].op # "idle"
    /\ LockStepOf(t).a = "acquire"
    /\ LET l == LockStepOf(t).l
       IN  IF LockStepOf(t).m = "read"
           THEN /\ lock[l].w = {}
                /\ lock' = [lock EXCEPT ![l].r = @ \cup {t}]
           ELSE /\ lock[l].w = {}
                /\ lock[l].r = {}
                /\ lock' = [lock EXCEPT ![l].w = {t}]
    /\ lthr' = [lthr EXCEPT ![t].pc = @ + 1]
    /\ UNCHANGED <<lcalls, lockFrame>>

\* A guard is dropped; the call is over after its last guard, after the
\* early return of line 48, or by the panic of random_peers.
LockRelease(t) ==
    /\ lthr[t].op # "idle"
    /\ LockStepOf(t).a = "release"
    /\ LET st == LockStepOf(t)
           last == lthr[t].pc = Len(LockPrograms[lthr[t].op])
       IN  /\ lock' = [lock EXCEPT ![st.l].r = @ \ {t}, ![st.l].w = @ \ {t}]
           /\ \/ /\ ~last
                 /\ lthr' = [lthr EXCEPT ![t].pc = @ + 1]
              \/ /\ last \/ st.alt = "return"
                 /\ lthr' = [lthr EXCEPT ![t] = LockIdleThread]
              \/ /\ st.alt = "panic"
                 /\ lthr' = [lthr EXCEPT ![t] =
                               [LockIdleThread EXCEPT !.res = "panicked"]]
    /\ UNCHANGED <<lcalls, lockFrame>>

LockNext ==
    \/ \E t \in LockThreads, op \in DOMAIN LockPrograms : LockCall(t, op)
    \/ \E t \in LockThreads : LockAcquire(t)
    \/ \E t \in LockThreads : LockRelease(t)

SpecLocks == LockInit /\ [][LockNext]_vars

\* Every thread inside a call is scheduled.
LockFairness ==
    \A t \in LockThreads :
        WF_vars(LockAcquire(t)) /\ WF_vars(LockRelease(t))

SpecLocksFair == LockInit /\ [][LockNext]_vars /\ LockFairness

\* The locks thread t holds, and the lock it is about to take.
C33_Holds(t) == {l \in Locks : t \in lock[l].r \cup lock[l].w}
C33_Waits(t) ==
    IF lthr[t].op # "idle" /\ LockStepOf(t).a = "acquire"
    THEN {LockStepOf(t).l} ELSE {}

\* C33: a thread that holds one of the two RwLocks and asks for the other
\* holds inactive_peers and asks for peers, and every call of a method of
\* State comes to its end.
C33_NoDeadlock ==
    /\ [](\A t \in LockThreads :
            C33_Holds(t) # {} /\ C33_Waits(t) # {} =>
               C33_Holds(t) = {"inactive_peers"} /\ C33_Waits(t) = {"peers"})
    /\ \A t \in LockThreads :
          (lthr[t].op # "idle") ~> (lthr[t].op = "idle")

\* A thread holds the write lock of inactive_peers and waits for peers
\* while another thread reads peers.
C33_Witness ==
    \E t, u \in LockThreads :
        /\ t # u
        /\ C33_Holds(t) = {"inactive_peers"}
        /\ C33_Waits(t) = {"peers"}
        /\ u \in lock["peers"].r

\* ------------------------------------------------------------------
\* random_peers(8) in the KeepAlive handler (src/node/handler.rs)
\* ------------------------------------------------------------------

\* C34: the random_peers(8) of the KeepAlive handler never finds the peers
\* map empty: no run of process_messages ends in its panic and the receive
\* task stays alive.
C34_NeverSamplesEmpty ==
    /\ recv_alive
    /\ ret.op = "process_messages" => ~ret.panicked

\* ------------------------------------------------------------------
\* The KeepAlive handler and the peer table (src/node/handler.rs)
\* ------------------------------------------------------------------

\* The addresses listed in the body of the message of the last
\* process_messages step.
C35_Listed(r) ==
    IF r.inner.tag = "KeepAlive"
    THEN {r.inner.peers[i] : i \in 1..Len(r.inner.peers)}
    ELSE {}

\* C35: a process_messages step on a KeepAlive changes no entry of peers or
\* inactive_peers but that of the sender: every listed address other than
\* the sender is in the same map as before, or in none, with the same
\* last_seen.
C35_KeepAliveListNotAdded ==
    [][Processed /\ ret'.inner.tag = "KeepAlive" =>
         \A a \in C35_Listed(ret') \ {ret'.peer} :
            /\ a \in Keys(peers') <=> a \in Keys(peers)
            /\ a \in Keys(inactive_peers') <=> a \in Keys(inactive_peers)
            /\ a \in Keys(peers) => MapGet(peers', a) = MapGet(peers, a)
            /\ a \in Keys(inactive_peers) =>
                  MapGet(inactive_peers', a) = MapGet(inactive_peers, a)]_vars

\* A KeepAlive of the node's network has been handled whose body lists an
\* address that check_addr accepts and no map holds, and another that is in
\* peers with an older last_seen; neither is the sender.
C35_Witness ==
    /\ ret.op = "process_messages"
    /\ ret.matched
    /\ ret.emitted # <<>>
    /\ \E a \in C35_Listed(ret) \ {ret.peer} :
          /\ check_addr(a)
          /\ a \notin Keys(peers) \cup Keys(inactive_peers)
    /\ \E a \in C35_Listed(ret) \ {ret.peer} :
          /\ a \in Keys(peers)
          /\ MapGet(peers, a).last_seen < now

\* ------------------------------------------------------------------
\* Datagrams that do not decode (src/net/codec.rs, src/node/mod.rs)
\* ------------------------------------------------------------------

\* C36: process_messages on the message the codec substitutes for a
\* datagram that does not decode leaves peers and inactive_peers as they
\* were and emits nothing, whatever the configured network.
C36_UndecodableIgnored ==
    [][\A src \in Senders :
         ProcessMessage(DecodeFallback, src) =>
            /\ peers' = peers
            /\ inactive_peers' = inactive_peers
            /\ ret'.emitted = <<>>]_vars

\* ------------------------------------------------------------------
\* The addresses the peer table holds (src/node/state.rs)
\* ------------------------------------------------------------------

\* The keys of the two maps.
C37_Known == Keys(peers) \cup Keys(inactive_peers)

\* C37: no call of add_or_update_peer, prune_peers or remove_peer puts into
\* peers or inactive_peers an address that check_addr rejects and that
\* neither map held before; so every key passes check_addr or is one of the
\* initial peers.
C37_KeysCheckedOrInitial ==
    [][\A a \in C37_Known' \ C37_Known : check_addr(a)]_vars

\* A forced call with an address that check_addr rejects has left it out
\* of both maps, while inactive_peers holds a pruned peer and peers holds
\* one that a call refreshed.
C37_Witness ==
    /\ ret.op = "add_or_update_peer"
    /\ ret.force
    /\ ~check_addr(ret.peer)
    /\ ret.peer \notin C37_Known
    /\ inactive_peers # <<>>
    /\ \E a \in Keys(peers) : MapGet(peers, a).last_seen > 0

\* ------------------------------------------------------------------
\* The magic number of a received header (nano-lib-rs/src/message.rs)
\* ------------------------------------------------------------------

\* C38: a datagram of at least 8 bytes whose first byte is not MAGIC_NUMBER
\* decodes to a message of kind Invalid, which process_messages hands to no
\* handler.
C38_BadMagicInvalid ==
    (cphase = "decoded" /\ Len(cin) >= 8 /\ cin[1] # MAGIC_NUMBER) =>
        /\ Unwrap(cout.item).header.kind = "Invalid"
        /\ Unwrap(cout.item).header.kind
              \notin {"KeepAlive", "Publish", "ConfirmReq"}

\* ------------------------------------------------------------------
\* The two bounded channels of generate_work (nanopow-rs/src/lib.rs)
\* ------------------------------------------------------------------

\* Worker w has left its loop without a cancel and is at its tx.send.
C39_AtSend(w) ==
    /\ wpc[w] = "loop"
    /\ ~wdone[w]
    /\ ~WorkerContinues(wvalid[w], wdone[w], witers[w],
                        EffectiveMaxIters(max_iters, NumCpus), NumCpus)

\* The messages the coordinator has taken from the result channel.
C39_Received == IF cpc = "recv" THEN 0 ELSE msgs_resvd + 1

\* C39: a worker at its send and the coordinator at a donetx.send find a
\* free slot; the messages sent on the result channel are one for each
\* worker that finished without a cancel; generate_work returns after
\* exactly N sentinels with every worker finished; and once the sentinels
\* are sent it does return.
C39_NoSendBlocks ==
    /\ [](\A w \in Workers :
            C39_AtSend(w) => Len(tx) < ChannelCapacity(NumCpus))
    /\ []((/\ cpc \in {"more", "cancel"}
           /\ csent < NumCpus
           /\ cpc = "more" =>
                 ~CoordinatorContinues(cres, msgs_resvd, NumCpus))
             => donech < ChannelCapacity(NumCpus))
    /\ [](Len(tx) + C39_Received =
            Cardinality({w \in Workers : wpc[w] = "exit" /\ ~wdone[w]}))
    /\ [](csent <= NumCpus)
    /\ [](cpc = "returned" =>
            csent = NumCpus /\ \A w \in Workers : wpc[w] = "exit")
    /\ (csent = NumCpus) ~> (cpc = "returned")

\* Every worker has sent its result before the coordinator took one: the
\* result channel is full.
C39_Witness ==
    /\ Len(tx) = ChannelCapacity(NumCpus)
    /\ cpc = "recv"
    /\ \A w \in Workers : wpc[w] = "exit" /\ ~wdone[w]

====
